---------------------------- MODULE Spec2Model ----------------------------
(***************************************************************************)
(* A model of the trading-coordination core of kucoin-project:             *)
(*   core/position_manager.py  PositionManager                             *)
(*   core/order_executor.py    OrderExecutor                               *)
(*   core/trading_engine.py    TradingEngine (rate limiter, execute_trade) *)
(*   core/risk_manager.py      RiskManager                                 *)
(*                                                                         *)
(* The program runs on one asyncio event loop: a step of the model is the  *)
(* code a task runs between two suspension points (an await that really    *)
(* yields: a call to the exchange, a notification, a lock that is taken).  *)
(* Times are whole seconds as time.time() returns them.                    *)
(***************************************************************************)
EXTENDS Integers, Sequences, FiniteSets, TLC

(***************************************************************************)
(* Bounds of the model.                                                    *)
(***************************************************************************)
MaxSize == 1          \* position sizes and quantities range over -MaxSize..MaxSize
MaxPrice == 2         \* prices range over 0..MaxPrice (0: no price available)
MaxTicks == 4         \* how many times the clock advances in one behaviour
MaxPnl == 2           \* update_risk is called with a pnl in -MaxPnl..MaxPnl
MaxLoss == 3          \* update_risk is called while the daily loss stays <= MaxLoss
MaxOpen == 3          \* ... and the position counter stays <= MaxOpen
MaxRegistered == 2    \* how many orders the registry holds at most
MaxTrailing == 2      \* how many trailing-stop orders the registry holds at most
MaxTradeTicks == 1    \* how many times the clock advances while trades are executed
MaxTradeOrders == 2   \* execute_trade sends no main order once the registry holds more than this less 2
MaxSignals == 2       \* how many signals the strategies produce in one behaviour
MaxBatch == 1         \* how many signals one generate_signals call returns at most
StartTime == 1700000000  \* time.time() when the components are constructed

(***************************************************************************)
(* Symbols.  A symbol is its market prefix and its base name, so that     *)
(* symbol.startswith("SPOT:") is a test of the prefix.                    *)
(***************************************************************************)
Sym(p, b) == [prefix |-> p, base |-> b]
Symbols == {Sym("SPOT:", "BTC"), Sym("FUTURES:", "ETH")}
SymbolOrder == <<Sym("SPOT:", "BTC"), Sym("FUTURES:", "ETH")>>
StartsWith(symbol, p) == symbol.prefix = p

Sizes == (0 - MaxSize)..MaxSize
Prices == 0..MaxPrice

Abs(x) == IF x < 0 THEN 0 - x ELSE x
Max(a, b) == IF a >= b THEN a ELSE b

VARIABLES
    \* ---- PositionManager
    positions,        \* self.positions: symbol -> position entry (a partial map)
    position_locks,   \* self.position_locks: symbol -> asyncio.Lock
    upc,              \* each update_position call: where its task stands
    usym,             \* ... its symbol argument
    uupd,             \* ... its trade_update argument
    submitted,        \* history: per symbol, the trade update of the latest call
    last_write,       \* history: the last write to the position map
    sy,               \* the task running sync_positions / monitor / cleanup
    \* ---- OrderExecutor
    last_orders,      \* self.last_orders: symbol -> time of the last admitted order
    order_counter,    \* self.order_counter
    opc,              \* each execute_order call: where its task stands
    osym,             \* ... its symbol
    last_call,        \* history: the last execute_order call and its outcome
    \* ---- TradingEngine: execute_trade and its rate limiter
    order_locks,            \* self.order_locks: symbol -> asyncio.Lock
    last_trade_time,        \* self.last_trade_time: symbol -> time (0.0 by default)
    rate_limit_counter,     \* self.rate_limit_counter: symbol -> count (0 by default)
    rate_limit_last_reset,  \* self.rate_limit_last_reset
    tpc,                    \* each execute_trade call: where its task stands
    tsym,                   \* ... its symbol
    last_check,             \* history: the last check_rate_limits call and its outcome
    \* ---- RiskManager
    daily_loss,       \* self.daily_loss
    open_positions,   \* self.open_positions
    last_reset,       \* self.last_reset
    last_risk,        \* history: the last RiskManager call and its outcome
    \* ---- TradingEngine: lifecycle, background loops, signal pipeline
    is_running,       \* self.is_running
    mpc,              \* main(): where it stands in start() / stop()
    lpc,              \* each background loop's task: where it stands
    cancel_req,       \* ... whether task.cancel() was called and is yet to be delivered
    active_orders,    \* self.active_orders: the order ids, in insertion order
    order_status,     \* the exchange: the status of each order
    cpass,            \* cleanup_orders: the ids its pass has yet to poll
    signals_made,     \* how many signals the strategies have produced
    last_signal,      \* history: the last process_signal call and its outcome
    last_loop,        \* history: the last step a background loop took
    \* ---- clock
    last_calc,        \* history: the last calculate_kucoin_liquidation_price call
    kpc,              \* where the can_open_position call is suspended
    karg,             \* its arguments and the configuration it runs under
    last_open,        \* history: the last can_open_position call that ended
    correlation_cache,\* pair of symbols -> the correlation and when it was computed
    cache_timestamp,  \* when the cache was last refreshed as a whole
    rpc,              \* the check_correlation_risk call and its cache refresh
    last_corr,        \* history: the last check_correlation_risk call that ended
    stop_prices,      \* the exchange: the stop price of each trailing-stop order
    now,              \* time.time()
    ticks             \* how often the clock has advanced

pmVars == <<positions, position_locks, upc, usym, uupd, submitted, last_write, sy>>
clockVars == <<now, ticks>>
oeVars == <<last_orders, order_counter, opc, osym, last_call>>
rlVars == <<order_locks, last_trade_time, rate_limit_counter, rate_limit_last_reset,
           tpc, tsym, last_check>>
rmVars == <<daily_loss, open_positions, last_reset, last_risk>>
enVars == <<is_running, mpc, lpc, cancel_req, active_orders, order_status, cpass,
           signals_made, last_signal, last_loop>>
openVars == <<kpc, karg, last_open>>
corrVars == <<correlation_cache, cache_timestamp, rpc, last_corr>>
ckVars == <<last_calc, openVars, corrVars, stop_prices>>
vars == <<pmVars, oeVars, rlVars, rmVars, enVars, clockVars, ckVars>>

\* What the actions of one component leave alone.
notPM == <<oeVars, rlVars, rmVars, enVars, clockVars, ckVars>>
notOE == <<pmVars, rlVars, rmVars, enVars, clockVars, ckVars>>
notRL == <<pmVars, oeVars, rmVars, enVars, clockVars, ckVars>>
notRM == <<pmVars, oeVars, rlVars, enVars, ckVars>>
notEN == <<oeVars, rlVars, rmVars, clockVars, ckVars>>
notClock == <<pmVars, oeVars, rlVars, rmVars, enVars, ckVars>>
notCK == <<pmVars, oeVars, rlVars, rmVars, enVars, clockVars, stop_prices>>

(***************************************************************************)
(* PositionManager                                                         *)
(***************************************************************************)
Updaters == {"u1", "u2", "u3"}

\* The trade_update dictionaries callers pass; a missing key reads as 0
\* (trade_update.get('size', 0)), so the empty dict is the all-zero record.
TradeUpdates ==
    { [size |-> 1, entry_price |-> 1, current_price |-> 1],
      [size |-> 0 - 1, entry_price |-> 2, current_price |-> 1],
      [size |-> 0, entry_price |-> 0, current_price |-> 0] }

NoUpdate == [size |-> 0, entry_price |-> 0, current_price |-> 0]

\* Trade updates of a leveraged long position (leverage 10, in tenths): one
\* whose price is inside the 5% buffer above its liquidation price, one far
\* from it.
LeveragedUpdates ==
    { [size |-> 1, entry_price |-> 2, current_price |-> 1, leverage |-> 100],
      [size |-> 1, entry_price |-> 1, current_price |-> 2, leverage |-> 100] }

\* asyncio.Lock: the locked flag and the FIFO of waiting tasks.
NewLock == [locked |-> FALSE, waiters |-> <<>>]

\* Lock.acquire takes the lock without suspending only when it is not locked
\* and nobody waits for it.
LockFreeNoCheck(symbol) == TRUE
LockFreeAll(symbol) ==
    \A s \in Symbols : ~position_locks[s].locked /\ position_locks[s].waiters = <<>>
LockFree(symbol) ==
    /\ ~position_locks[symbol].locked
    /\ position_locks[symbol].waiters = <<>>

\* A record with one field set, added when the record lacks it.
SetField(rec, f, v) == [x \in (DOMAIN rec) \cup {f} |-> IF x = f THEN v ELSE rec[x]]

\* The entry update_position creates when the symbol has none.
EmptyEntry == [size |-> 0, entry_price |-> 0, current_price |-> 0]

TradingMode == "spot"       \* config trading.mode

\* symbol.startswith("FUTURES:") or self.config["trading"]["mode"] == "futures"
IsFutures(symbol) == StartsWith(symbol, "FUTURES:") \/ TradingMode = "futures"

\* Decimal results of calculate_kucoin_liquidation_price, in thousandths.
Finite(v) == [infinite |-> FALSE, value |-> v]
Infinity == [infinite |-> TRUE, value |-> 0]

DefaultMarginRatio == 5      \* maintenance_margin_ratio, 0.005, in thousandths

\* The factor of the short branch, in thousandths: 1 + 1/leverage - ratio.
ShortFactorMirrored(initial_margin_ratio, ratio) == 1000 - initial_margin_ratio + ratio

ShortFactor(initial_margin_ratio, ratio) == 1000 + initial_margin_ratio - ratio

\* calculate_kucoin_liquidation_price for numeric arguments.
calculate_kucoin_liquidation_price(entry_price, leverage, direction, ratio) ==
    LET initial_margin_ratio == 10000 \div leverage IN
    IF leverage <= 10
    THEN IF direction = "long" THEN Finite(0) ELSE Infinity
    ELSE IF direction = "long"
         THEN Finite(entry_price * (1000 - initial_margin_ratio + ratio))
         ELSE Finite(entry_price * ShortFactor(initial_margin_ratio, ratio))

\* The entry update_position leaves for the symbol: created when absent, then
\* size, entry_price and current_price overwritten from the update, the
\* leverage stored when the update has one and, for a futures symbol with a
\* leverage, the liquidation price computed for the update's entry price
\* and direction.  (No update of this model has a liquidation_price or a
\* margin key.)
UpdatedEntry(map, symbol, u) ==
    LET position == IF symbol \in DOMAIN map THEN map[symbol] ELSE EmptyEntry
        written == [position EXCEPT !.size = u.size, !.entry_price = u.entry_price,
                                    !.current_price = u.current_price]
    IN  IF "leverage" \notin DOMAIN u
        THEN written
        ELSE IF ~IsFutures(symbol)
        THEN SetField(written, "leverage", u.leverage)
        ELSE SetField(SetField(written, "leverage", u.leverage), "liquidation_price",
                      calculate_kucoin_liquidation_price(
                          u.entry_price, u.leverage,
                          IF u.size > 0 THEN "long" ELSE "short",
                          DefaultMarginRatio))

PutPosition(map, symbol, entry) ==
    [x \in (DOMAIN map) \cup {symbol} |-> IF x = symbol THEN entry ELSE map[x]]

\* The task that runs sync_positions and its callers, at rest.
IdleSync == [pc |-> "idle", caller |-> "none", todo |-> <<>>, current |-> << >>,
             keys |-> <<>>, used |-> 0, fetched |-> <<>>, ended |-> "none",
             edits |-> <<>>]

InitPMButPositions ==
    /\ position_locks = [s \in Symbols |-> NewLock]
    /\ upc = [t \in Updaters |-> "idle"]
    /\ usym = [t \in Updaters |-> SymbolOrder[1]]
    /\ uupd = [t \in Updaters |-> NoUpdate]
    /\ submitted = [s \in Symbols |-> NoUpdate]
    /\ last_write = [op |-> "none", syms |-> {}, held |-> {}, fetched |-> <<>>]
    /\ sy = IdleSync

InitPM ==
    /\ positions = << >>
    /\ InitPMButPositions

(***************************************************************************)
(* OrderExecutor: state                                                    *)
(***************************************************************************)
OrderTasks == {"o1", "o2"}

\* The record of the last call: `turn` alternates so that two equal calls in
\* a row still change it.
NoCall == [turn |-> 0, symbol |-> SymbolOrder[1], strategy_name |-> "None",
           admitted |-> FALSE, dispatched |-> FALSE, surfaced |-> FALSE]

InitOE ==
    /\ last_orders = << >>
    /\ order_counter = 0
    /\ opc = [o \in OrderTasks |-> "idle"]
    /\ osym = [o \in OrderTasks |-> SymbolOrder[1]]
    /\ last_call = NoCall

(***************************************************************************)
(* TradingEngine (rate limiter) and RiskManager: state                     *)
(***************************************************************************)
TradeTasks == {"e1", "e2"}

NoCheck == [turn |-> 0, symbol |-> SymbolOrder[1], admitted |-> FALSE, found |-> 0]

\* TradingEngine.__init__: both defaultdicts are empty, which reads as 0.0
\* and 0 for every symbol; the reset time is the time of construction.
InitRL ==
    /\ order_locks = [s \in Symbols |-> NewLock]
    /\ last_trade_time = [s \in Symbols |-> 0]
    /\ rate_limit_counter = [s \in Symbols |-> 0]
    /\ rate_limit_last_reset = now
    /\ tpc = [e \in TradeTasks |-> "idle"]
    /\ tsym = [e \in TradeTasks |-> SymbolOrder[1]]
    /\ last_check = NoCheck

\* The record of the last call: what it was, the time since the last reset
\* and whether the loss limit was exceeded when it began, whether it reset the
\* daily loss, and what it returned.
NoRiskCall == [turn |-> 0, op |-> "none", pnl |-> 0, elapsed |-> 0, exceeded |-> FALSE,
               reset |-> FALSE, result |-> FALSE]

\* RiskManager.__init__
InitRM ==
    /\ daily_loss = 0
    /\ open_positions = 0
    /\ last_reset = now
    /\ last_risk = NoRiskCall

(***************************************************************************)
(* TradingEngine (lifecycle, loops, signal pipeline): state                *)
(***************************************************************************)
Loops == {"monitor", "cleanup", "metrics", "scanner"}

\* The ids of the orders the registry may hold.
OrderIds == 1..MaxRegistered

\* The trailing-stop orders the registry may hold, by id: the symbol, the
\* trailing delta and the stop price of the order dictionary, the last two in
\* tenths of a price unit.  With the price at MaxPrice the new stop of a long
\* position is LongStop and that of a short one ShortStop; the stops of the
\* book are 10% and 20% of the delta away from them.
TrailingDelta == 10
LongStop == MaxPrice * 10 - TrailingDelta
ShortStop == MaxPrice * 10 + TrailingDelta
TrailIds == 11..14
TrailingBook ==
    [o \in TrailIds |->
        [symbol |-> IF o <= 12 THEN SymbolOrder[1] ELSE SymbolOrder[2],
         trailing_delta |-> TrailingDelta,
         stop_price |-> CASE o = 11 -> LongStop + 1
                          [] o = 12 -> LongStop + 2
                          [] o = 13 -> ShortStop - 1
                          [] OTHER -> ShortStop - 2]]

\* What fetch_order may report of an order.
Statuses == {"open", "filled", "cancelled"}

\* The record of the last process_signal call: what the risk step did, how
\* the call ended, and which of its stages acted.
NoSignal == [id |-> 0, risk |-> "none", outcome |-> "none",
             handed |-> FALSE, updated |-> FALSE, notified |-> FALSE,
             propagated |-> FALSE]

\* The last step a background task took, and the seconds of the sleep it
\* entered (0 when it suspended elsewhere or ended).
NoStep == [loop |-> "none", step |-> "none", wait |-> 0]

\* TradingEngine.__init__, and main() about to ask for the balances.
InitEN ==
    /\ is_running = FALSE
    /\ mpc = "main_balances"
    /\ lpc = [l \in Loops |-> "none"]
    /\ cancel_req = [l \in Loops |-> FALSE]
    /\ order_status = [o \in OrderIds |-> "open"]
    /\ cpass = <<>>
    /\ signals_made = 0
    /\ last_signal = NoSignal
    /\ last_loop = NoStep

\* The sleeps of the loops between two iterations, in seconds.
MonitorInterval == 10
CleanupInterval == 60
MetricsInterval == 300
ScanInterval == 300

\* The sleeps after an iteration that failed or found no liquid pair.
MonitorBackoff == 30
CleanupBackoff == 30
ScanBackoff == 60
NoPairsWait == 60

\* start() once initialize() has returned: the notification is sent (it
\* does not suspend), the four tasks are created and start() awaits gather.
StartContinues ==
    /\ mpc' = "gathering"
    /\ lpc' = [l \in Loops |-> "created"]
    /\ UNCHANGED <<is_running, cancel_req, active_orders, order_status, cpass,
                   signals_made, last_signal, last_loop>>

\* check_liquidation_risk: False for an entry without a liquidation price;
\* for a long position current < liquidation * 1.05, for any other
\* current > liquidation * 0.95, in Decimal arithmetic (prices in units, the
\* liquidation price in thousandths).
check_liquidation_risk(position) ==
    IF "liquidation_price" \notin DOMAIN position
    THEN FALSE
    ELSE LET liquidation_price == position.liquidation_price IN
         IF position.size > 0
         THEN \/ liquidation_price.infinite
              \/ position.current_price * 100000 < liquidation_price.value * 105
         ELSE /\ ~liquidation_price.infinite
              /\ position.current_price * 100000 > liquidation_price.value * 95

\* A sync_positions call made by the engine's monitor task goes on only
\* while that task has not been cancelled.
SyncNotCancelled == sy.caller = "engine" => ~cancel_req["monitor"]

\* No calculate_kucoin_liquidation_price call yet.
NoCalc == [called |-> FALSE, entry_price |-> 0, leverage |-> 0, direction |-> "none",
           ratio |-> 0, result |-> [infinite |-> FALSE, value |-> 0]]

\* No can_open_position call.
NoOpenArgs == [symbol |-> SymbolOrder[1], size |-> 0, price |-> 0, max_pct |-> 0]
NoOpen == [called |-> FALSE, symbol |-> SymbolOrder[1], size |-> 0, price |-> 0,
           max_pct |-> 0, equity |-> 0, open |-> {}, error |-> "none",
           result |-> FALSE, raised |-> FALSE]

\* No check_correlation_risk call.
IdleCheck == [pc |-> "idle", candidate |-> SymbolOrder[1], exposure |-> 0,
              symbols |-> <<>>, todo |-> <<>>, lens |-> << >>]
NoCheckYet == [called |-> FALSE, candidate |-> SymbolOrder[1], exposure |-> 0,
               open |-> {}, read |-> << >>, result |-> FALSE]

InitCK ==
    /\ stop_prices = [o \in TrailIds |-> TrailingBook[o].stop_price]
    /\ correlation_cache = << >>
    /\ cache_timestamp = 0
    /\ rpc = IdleCheck
    /\ last_corr = NoCheckYet
    /\ last_calc = NoCalc
    /\ kpc = "idle"
    /\ karg = NoOpenArgs
    /\ last_open = NoOpen

\* The components as constructed when the clock reads t, but for the order
\* registry.
InitButRegistry(t) ==
    /\ InitCK
    /\ now = t
    /\ ticks = 0
    /\ InitPM
    /\ InitOE
    /\ InitRL
    /\ InitRM
    /\ InitEN

\* The same but for the position map, and with no order registered.
InitButPositions(t) ==
    /\ InitCK
    /\ now = t
    /\ ticks = 0
    /\ InitPMButPositions
    /\ InitOE
    /\ InitRL
    /\ InitRM
    /\ InitEN
    /\ active_orders = <<>>

\* The components as constructed when the clock reads t.
InitAt(t) ==
    /\ InitButRegistry(t)
    /\ active_orders = <<>>

Init == InitAt(StartTime)

\* update_position from the lock being held to the first suspension: the
\* writes, then update_stop_loss, which returns at once for a size of zero
\* (the lock is released without the task ever yielding) and otherwise
\* awaits the exchange for the ATR.
UpdateLocked(t, symbol, u, waiters) ==
    /\ positions' = PutPosition(positions, symbol, UpdatedEntry(positions, symbol, u))
    /\ last_write' = [op |-> "update_position", syms |-> {symbol}, held |-> {symbol},
                      fetched |-> <<>>]
    /\ IF u.size = 0
       THEN /\ upc' = [upc EXCEPT ![t] = "done"]
            /\ position_locks' = [position_locks EXCEPT ![symbol] =
                                    [locked |-> FALSE, waiters |-> waiters]]
       ELSE /\ upc' = [upc EXCEPT ![t] = "stop_atr"]
            /\ position_locks' = [position_locks EXCEPT ![symbol] =
                                    [locked |-> TRUE, waiters |-> waiters]]

\* update_position(symbol, trade_update) is entered by task t: the lock is
\* free and the body runs, or the task queues behind the holder.
UpdatePositionEnter(t, symbol, u) ==
    /\ usym' = [usym EXCEPT ![t] = symbol]
    /\ uupd' = [uupd EXCEPT ![t] = u]
    /\ submitted' = [submitted EXCEPT ![symbol] = u]
    /\ IF LockFree(symbol)
       THEN UpdateLocked(t, symbol, u, position_locks[symbol].waiters)
       ELSE /\ upc' = [upc EXCEPT ![t] = "waiting"]
            /\ position_locks' = [position_locks EXCEPT ![symbol].waiters = Append(@, t)]
            /\ UNCHANGED <<positions, last_write>>
    /\ UNCHANGED sy

\* The lock was released and task t is the first waiter: it takes the lock
\* and runs the body.
UpdatePositionWoken(t) ==
    /\ upc[t] = "waiting"
    /\ ~position_locks[usym[t]].locked
    /\ position_locks[usym[t]].waiters # <<>>
    /\ Head(position_locks[usym[t]].waiters) = t
    /\ UpdateLocked(t, usym[t], uupd[t], Tail(position_locks[usym[t]].waiters))
    /\ UNCHANGED <<usym, uupd, submitted, sy>>

\* update_stop_loss: calculate_atr's fetch_ohlcv returned.  When the ATR was
\* computed it is a Decimal, and current_price - stop_distance (a float and a
\* Decimal) raises TypeError, which update_stop_loss logs: no stop order is
\* sent, update_position leaves the async with block and the lock is released.
StopLossAtrComputed(t) ==
    /\ upc[t] = "stop_atr"
    /\ upc' = [upc EXCEPT ![t] = "done"]
    /\ position_locks' = [position_locks EXCEPT ![usym[t]].locked = FALSE]
    /\ UNCHANGED <<positions, usym, uupd, submitted, last_write, sy>>

\* update_stop_loss: fetch_ohlcv raised or returned too few candles, which
\* calculate_atr turns into an ATR of 0: the stop order is sent next.
StopLossAtrFailed(t) ==
    /\ upc[t] = "stop_atr"
    /\ upc' = [upc EXCEPT ![t] = "stop_order"]
    /\ UNCHANGED <<positions, position_locks, usym, uupd, submitted, last_write, sy>>

\* update_stop_loss: create_order returned or raised; update_position leaves
\* the async with block and the lock is released.
StopLossOrder(t) ==
    /\ upc[t] = "stop_order"
    /\ upc' = [upc EXCEPT ![t] = "done"]
    /\ position_locks' = [position_locks EXCEPT ![usym[t]].locked = FALSE]
    /\ UNCHANGED <<positions, usym, uupd, submitted, last_write, sy>>

\* The steps above as taken by a task that calls update_position directly.
UpdatePositionCall(t) ==
    /\ upc[t] = "idle"
    /\ \E symbol \in Symbols, u \in TradeUpdates : UpdatePositionEnter(t, symbol, u)
    /\ UNCHANGED notPM

UpdatePositionResume(t) == UpdatePositionWoken(t) /\ UNCHANGED notPM

\* update_position is called with a trade update that has a leverage.
UpdatePositionLeveragedCall(t) ==
    /\ upc[t] = "idle"
    /\ \E symbol \in Symbols, u \in LeveragedUpdates : UpdatePositionEnter(t, symbol, u)
    /\ UNCHANGED notPM

UpdateStopLossAtrComputed(t) == StopLossAtrComputed(t) /\ UNCHANGED notPM

UpdateStopLossAtrFailed(t) == StopLossAtrFailed(t) /\ UNCHANGED notPM

UpdateStopLossOrder(t) == StopLossOrder(t) /\ UNCHANGED notPM

(***************************************************************************)
(* sync_positions, and its callers monitor_positions and                   *)
(* cleanup_positions, run by one task (the engine's position monitor).     *)
(***************************************************************************)
\* The raw records fetch_positions returns: a spot balance record, a futures
\* position record, or a record of neither shape.
SpotRecord(symbol, q) == [shape |-> "spot", symbol |-> symbol, qty |-> q, avg |-> 0]
FuturesRecord(symbol, q, a) == [shape |-> "futures", symbol |-> symbol, qty |-> q, avg |-> a]
OtherRecord(symbol) == [shape |-> "other", symbol |-> symbol, qty |-> 0, avg |-> 0]

\* What one fetch_positions call may return: lists of records, in the
\* exchange's order, that between them have every shape, a zero and a non-zero
\* quantity, and each symbol present and absent.
FetchResults ==
    { <<>>,
      <<SpotRecord(SymbolOrder[1], MaxSize)>>,
      <<SpotRecord(SymbolOrder[1], 0), FuturesRecord(SymbolOrder[2], 0 - MaxSize, 1)>>,
      <<OtherRecord(SymbolOrder[1]), FuturesRecord(SymbolOrder[2], MaxSize, 1)>>,
      <<SpotRecord(SymbolOrder[1], MaxSize), FuturesRecord(SymbolOrder[2], 0 - MaxSize, 1)>> }

\* What get_current_price may return: 0 when the exchange has no price.
PriceReplies == {0, MaxPrice}

\* sync_positions keeps a record only if it has one of the two shapes and a
\* size other than zero.
Tracked(rec) == rec.shape \in {"spot", "futures"} /\ rec.qty # 0

\* The entry sync_positions builds from a record and the price it awaited.
SyncedEntry(rec, price) ==
    [size |-> rec.qty,
     entry_price |-> IF rec.shape = "spot" THEN 0 ELSE rec.avg,
     current_price |-> price]

\* The records of the list from the first tracked one on: the loop passes
\* over the others without suspending.
RECURSIVE SkipUntracked(_)
SkipUntracked(todo) ==
    IF todo = <<>> \/ Tracked(Head(todo)) THEN todo ELSE SkipUntracked(Tail(todo))

\* The keys of a position map in the order iteration visits them.
KeysInOrder(map) == SelectSeq(SymbolOrder, LAMBDA s : s \in DOMAIN map)

\* cleanup_positions after its sync: the entries of size zero are deleted.
WithoutClosed(map) == [x \in {k \in DOMAIN map : map[k].size # 0} |-> map[x]]

\* monitor_positions: the for loop asks the dict iterator for its next item.
\* The iterator raises RuntimeError when the dict changed size since the loop
\* began (update_position added a key), which ends monitor_positions.
MonitorNext(map, keys, used) ==
    IF Cardinality(DOMAIN map) # used \/ keys = <<>>
    THEN IdleSync
    ELSE [pc |-> "mon_price", caller |-> "monitor", todo |-> <<>>, current |-> << >>,
          keys |-> keys, used |-> used, fetched |-> <<>>, ended |-> "none",
          edits |-> <<>>]

\* update_trailing_stops: the new stop of an order, in tenths: the current
\* price less the trailing delta for a long position (size > 0), plus the
\* delta otherwise.
NewStop(position, trail_delta) ==
    IF position.size > 0
    THEN position.current_price * 10 - trail_delta
    ELSE position.current_price * 10 + trail_delta

\* update_trailing_stops: abs(new_stop - order['stop_price']) > trail_delta * 0.1,
\* in Decimal arithmetic.
NeedsEdit(new_stop, stop_price, trail_delta) ==
    Abs(new_stop - stop_price) * 10 > trail_delta

\* The registered trailing-stop orders of a symbol, in the registry's order.
TrailingOrdersOf(symbol) ==
    SelectSeq(active_orders,
              LAMBDA o : o \in TrailIds /\ TrailingBook[o].symbol = symbol)

\* History: what update_trailing_stops decided for order o of `position`;
\* exchange_stop is the stop price the order has on the exchange.
EditDecision(o, position) ==
    LET order == TrailingBook[o]
        new_stop == NewStop(position, order.trailing_delta)
    IN  [order |-> o, size |-> position.size, current_price |-> position.current_price,
         new_stop |-> new_stop, exchange_stop |-> stop_prices[o],
         sent |-> NeedsEdit(new_stop, order.stop_price, order.trailing_delta)]

\* The engine's monitor_positions inside its for loop over
\* self.positions.items(), from one suspension to the next.  PassFrom is the
\* loop asking the dict iterator for its next item: RuntimeError when the dict
\* changed size since the loop began, the end of the pass when no key is left;
\* an entry at risk of liquidation awaits self.close_position, which
\* TradingEngine does not define (AttributeError).  Both errors go to the
\* loop's except clause.  PassInner is update_trailing_stops looking at the
\* orders `todo` of the entry keys[1]: the first order that needs a new stop
\* suspends the task in exchange.edit_order.
RECURSIVE PassFrom(_, _, _, _)
RECURSIVE PassInner(_, _, _, _, _)
PassFrom(map, keys, used, edits) ==
    IF Cardinality(DOMAIN map) # used
    THEN [end |-> "failed", keys |-> keys, used |-> used, todo |-> <<>>, edits |-> edits]
    ELSE IF keys = <<>>
    THEN [end |-> "done", keys |-> keys, used |-> used, todo |-> <<>>, edits |-> edits]
    ELSE IF check_liquidation_risk(map[Head(keys)])
    THEN [end |-> "failed", keys |-> keys, used |-> used, todo |-> <<>>, edits |-> edits]
    ELSE PassInner(map, keys, used, TrailingOrdersOf(Head(keys)), edits)
PassInner(map, keys, used, todo, edits) ==
    IF todo = <<>>
    THEN PassFrom(map, Tail(keys), used, edits)
    ELSE LET decision == EditDecision(Head(todo), map[Head(keys)]) IN
         IF decision.sent
         THEN [end |-> "edit", keys |-> keys, used |-> used, todo |-> todo,
               edits |-> Append(edits, decision)]
         ELSE PassInner(map, keys, used, Tail(todo), Append(edits, decision))

\* The pass of the engine's monitor once sync_positions has returned, the map
\* being `map`.
PassBegins(map) == PassFrom(map, KeysInOrder(map), Cardinality(DOMAIN map), <<>>)

\* Where a step of the pass leaves the monitor task: suspended in edit_order,
\* in its 10 seconds' sleep after a completed pass, or in the 30 seconds'
\* sleep of the except clause with the rest of the map not looked at.
MonitorPassGoes(result) ==
    /\ CASE result.end = "edit" ->
              /\ lpc' = [lpc EXCEPT !["monitor"] = "edit_order"]
              /\ last_loop' = [loop |-> "monitor", step |-> "edit", wait |-> 0]
         [] result.end = "failed" ->
              /\ lpc' = [lpc EXCEPT !["monitor"] = "backoff"]
              /\ last_loop' = [loop |-> "monitor", step |-> "failed",
                               wait |-> MonitorBackoff]
         [] OTHER ->
              /\ lpc' = [lpc EXCEPT !["monitor"] = "sleep"]
              /\ last_loop' = [loop |-> "monitor", step |-> "iteration",
                               wait |-> MonitorInterval]
    /\ UNCHANGED <<is_running, mpc, cancel_req, active_orders, order_status, cpass,
                   signals_made, last_signal>>

\* The monitor task after that step.
PassTask(result, ended) ==
    IF result.end = "edit"
    THEN [pc |-> "edit_order", caller |-> "engine", todo |-> result.todo,
          current |-> << >>, keys |-> result.keys, used |-> result.used,
          fetched |-> <<>>, ended |-> ended, edits |-> result.edits]
    ELSE [IdleSync EXCEPT !.ended = ended, !.edits = result.edits]

MonitorContinues(map) == MonitorPassGoes(PassBegins(map))

\* What the return of sync_positions, the map being `map`, sets off in the
\* engine.
EngineAfterSync(caller, map) ==
    CASE caller = "initialize" -> StartContinues
      [] caller = "engine" -> MonitorContinues(map)
      [] OTHER -> UNCHANGED enVars

\* sync_positions has returned to its caller with the map as `map`; `wrote`
\* tells whether it replaced the map (recorded in `ended` as history: "ok",
\* or "failed" when the except clause ended the call).  What the caller does up to its next
\* suspension.
AfterSync(caller, map, wrote, fetched) ==
    LET replaced == IF wrote THEN (DOMAIN positions) \cup (DOMAIN map) ELSE {}
        ended == IF wrote THEN "ok" ELSE "failed"
    IN
    /\ EngineAfterSync(caller, map)
    /\ CASE caller = "cleanup" ->
            /\ positions' = WithoutClosed(map)
            /\ last_write' =
                 IF WithoutClosed(map) # map
                 THEN [op |-> "cleanup_positions",
                       syms |-> (DOMAIN map) \ DOMAIN WithoutClosed(map), held |-> {},
                       fetched |-> <<>>]
                 ELSE IF wrote
                 THEN [op |-> "sync_positions", syms |-> replaced, held |-> {},
                                   fetched |-> fetched]
                 ELSE last_write
            /\ sy' = [IdleSync EXCEPT !.ended = ended]
      [] caller = "monitor" ->
            /\ positions' = map
            /\ last_write' = IF wrote
                             THEN [op |-> "sync_positions", syms |-> replaced, held |-> {},
                                   fetched |-> fetched]
                             ELSE last_write
            /\ sy' = [MonitorNext(map, KeysInOrder(map), Cardinality(DOMAIN map))
                        EXCEPT !.ended = ended]
      [] caller = "engine" ->
            /\ positions' = map
            /\ last_write' = IF wrote
                             THEN [op |-> "sync_positions", syms |-> replaced, held |-> {},
                                   fetched |-> fetched]
                             ELSE last_write
            /\ sy' = PassTask(PassBegins(map), ended)
      [] OTHER ->
            /\ positions' = map
            /\ last_write' = IF wrote
                             THEN [op |-> "sync_positions", syms |-> replaced, held |-> {},
                                   fetched |-> fetched]
                             ELSE last_write
            /\ sy' = [IdleSync EXCEPT !.ended = ended]

\* The map sync_positions leaves in self.positions: current_positions takes
\* the place of the old map.
MergePositions(old, current) ==
    [x \in (DOMAIN old) \cup (DOMAIN current) |->
        IF x \in DOMAIN current THEN current[x] ELSE old[x]]

ReplacePositions(old, current) == current

\* The map a sync_positions that raised inside leaves: current_positions is
\* dropped with the call, self.positions was not assigned.
KeptOnFailurePartial(old, current) == MergePositions(old, current)

KeptOnFailure(old, current) == old

\* The loop of sync_positions from record `todo[1]` on, with current_positions
\* as `current`: it suspends at the next tracked record, awaiting its price,
\* or reaches the end and replaces self.positions.
SyncLoop(caller, todo, current, fetched) ==
    IF SkipUntracked(todo) # <<>>
    THEN /\ sy' = [pc |-> "price", caller |-> caller, todo |-> SkipUntracked(todo),
                   current |-> current, keys |-> <<>>, used |-> 0,
                   fetched |-> fetched, ended |-> "none", edits |-> <<>>]
         /\ UNCHANGED <<positions, last_write, enVars>>
    ELSE AfterSync(caller, ReplacePositions(positions, current), TRUE, fetched)

\* sync_positions is called: by the engine's monitor loop or initialize
\* ("sync"), by monitor_positions or by cleanup_positions; it awaits
\* exchange.fetch_positions().
SyncPositionsCall ==
    /\ sy.pc = "idle"
    /\ \E caller \in {"sync", "monitor", "cleanup"} :
         sy' = [IdleSync EXCEPT !.pc = "fetch", !.caller = caller]
    /\ UNCHANGED <<positions, position_locks, upc, usym, uupd, submitted, last_write, notPM>>

\* fetch_positions returned its list.
SyncPositionsFetched ==
    /\ sy.pc = "fetch"
    /\ \E result \in FetchResults : SyncLoop(sy.caller, result, << >>, result)
    /\ SyncNotCancelled
    /\ UNCHANGED <<position_locks, upc, usym, uupd, submitted, notEN>>

\* fetch_positions raised, or a record could not be read: the except clause
\* logs and sync_positions returns with self.positions as it was.
SyncPositionsFailed ==
    /\ sy.pc \in {"fetch", "price"}
    /\ AfterSync(sy.caller, KeptOnFailure(positions, sy.current), FALSE, <<>>)
    /\ SyncNotCancelled
    /\ UNCHANGED <<position_locks, upc, usym, uupd, submitted, notEN>>

\* get_current_price returned for the record at hand: its entry is added to
\* current_positions and the loop goes on.
SyncPositionsPriced ==
    /\ sy.pc = "price"
    /\ \E price \in PriceReplies :
         SyncLoop(sy.caller, Tail(sy.todo),
                  PutPosition(sy.current, Head(sy.todo).symbol,
                              SyncedEntry(Head(sy.todo), price)),
                  sy.fetched)
    /\ SyncNotCancelled
    /\ UNCHANGED <<position_locks, upc, usym, uupd, submitted, notEN>>

\* monitor_positions: the unrealized PnL in percent, (cur - entry) / entry * 100
\* for a long and (entry - cur) / entry * 100 for a short position.  The
\* prices of this model make the quotient a whole number.
PnlPct(size, entry_price, current_price) ==
    IF size > 0
    THEN ((current_price - entry_price) * 100) \div entry_price
    ELSE ((entry_price - current_price) * 100) \div entry_price

\* monitor_positions after the PnL part of the entry keys[1], whose price was
\* above 0.  An entry with a liquidation price has its proximity computed as
\* abs(liq_price - current_price) / current_price: the liquidation price
\* update_position stores is a Decimal and the price of get_current_price a
\* float, which raises TypeError (and past it the warning would go to
\* send_warning_notification, which Notifications does not define).  The
\* except clause logs the error and monitor_positions returns with the rest
\* of the map not looked at.  Any other entry lets the loop go on.
MonitorAfterEntry(map, keys, used) ==
    IF "liquidation_price" \in DOMAIN map[Head(keys)]
    THEN IdleSync
    ELSE MonitorNext(map, Tail(keys), used)

\* monitor_positions: get_current_price returned for the entry at hand.  A
\* price of 0 or less skips the entry; otherwise current_price is written,
\* the PnL is stored when the entry has an entry price and a size, and a PnL
\* beyond 5% (and so beyond 3%) awaits update_stop_loss.
MonitorPriced(replies) ==
    /\ sy.pc = "mon_price"
    /\ \E price \in replies :
        LET symbol == Head(sy.keys)
            position == positions[symbol]
            hasPnl == position.entry_price > 0 /\ position.size # 0
            pnl == PnlPct(position.size, position.entry_price, price)
            priced == [position EXCEPT !.current_price = price]
            written == IF hasPnl THEN SetField(priced, "unrealized_pnl_pct", pnl)
                       ELSE priced
        IN  IF price <= 0
            THEN /\ sy' = MonitorNext(positions, Tail(sy.keys), sy.used)
                 /\ UNCHANGED <<positions, last_write>>
            ELSE /\ positions' = [positions EXCEPT ![symbol] = written]
                 /\ last_write' = [op |-> "monitor_positions", syms |-> {symbol},
                                   held |-> {}, fetched |-> <<>>]
                 /\ sy' = IF hasPnl /\ Abs(pnl) > 5
                          THEN [sy EXCEPT !.pc = "mon_stop_atr"]
                          ELSE MonitorAfterEntry(positions', sy.keys, sy.used)
    /\ UNCHANGED <<position_locks, upc, usym, uupd, submitted, notPM>>

MonitorPositionsPriced == MonitorPriced(PriceReplies)

\* monitor_positions in update_stop_loss: the ATR was computed, and the stop
\* price raises TypeError as in update_position; the loop goes on.
MonitorStopLossAtrComputed ==
    /\ sy.pc = "mon_stop_atr"
    /\ sy' = MonitorAfterEntry(positions, sy.keys, sy.used)
    /\ UNCHANGED <<positions, position_locks, upc, usym, uupd, submitted, last_write, notPM>>

\* monitor_positions in update_stop_loss: the ATR is 0, the stop order is sent.
MonitorStopLossAtrFailed ==
    /\ sy.pc = "mon_stop_atr"
    /\ sy' = [sy EXCEPT !.pc = "mon_stop_order"]
    /\ UNCHANGED <<positions, position_locks, upc, usym, uupd, submitted, last_write, notPM>>

\* monitor_positions in update_stop_loss: create_order returned or raised.
MonitorStopLossOrder ==
    /\ sy.pc = "mon_stop_order"
    /\ sy' = MonitorAfterEntry(positions, sy.keys, sy.used)
    /\ UNCHANGED <<positions, position_locks, upc, usym, uupd, submitted, last_write, notPM>>

\* The update_position calls alone: three tasks contending for the locks.
NextLocks ==
    \/ \E t \in Updaters : UpdatePositionCall(t)
    \/ \E t \in Updaters : UpdatePositionResume(t)
    \/ \E t \in Updaters : UpdateStopLossAtrComputed(t)
    \/ \E t \in Updaters : UpdateStopLossAtrFailed(t)
    \/ \E t \in Updaters : UpdateStopLossOrder(t)

SpecLocks == Init /\ [][NextLocks]_vars

\* Two update_position calls beside the task that syncs, monitors and cleans.
SyncUpdaters == {"u1", "u2"}

NextPM ==
    \/ \E t \in SyncUpdaters : UpdatePositionCall(t)
    \/ \E t \in SyncUpdaters : UpdatePositionResume(t)
    \/ \E t \in SyncUpdaters : UpdateStopLossAtrComputed(t)
    \/ \E t \in SyncUpdaters : UpdateStopLossAtrFailed(t)
    \/ \E t \in SyncUpdaters : UpdateStopLossOrder(t)
    \/ SyncPositionsCall
    \/ SyncPositionsFetched
    \/ SyncPositionsFailed
    \/ SyncPositionsPriced
    \/ MonitorPositionsPriced
    \/ MonitorStopLossAtrComputed
    \/ MonitorStopLossAtrFailed
    \/ MonitorStopLossOrder

SpecPM == Init /\ [][NextPM]_vars

(***************************************************************************)
(* Claims about PositionManager                                            *)
(***************************************************************************)
\* A task is inside update_position's critical section while it is suspended
\* in the async with block, the lock taken.
InCriticalSection(t) == upc[t] \in {"stop_atr", "stop_order"}

\* C1: for every symbol, at most one execution of update_position for that
\* symbol is between acquiring and releasing the symbol's lock at any instant.
C1_AtMostOneInCriticalSection ==
    \A symbol \in Symbols :
        Cardinality({t \in Updaters : InCriticalSection(t) /\ usym[t] = symbol}) <= 1

\* One task holds a symbol's lock while another waits for the same lock.
C1_Witness ==
    \E t1, t2 \in Updaters :
        /\ t1 # t2
        /\ usym[t1] = usym[t2]
        /\ InCriticalSection(t1)
        /\ upc[t2] = "waiting"
        /\ position_locks[usym[t1]].locked

\* Every update_position call made for the symbol has completed, and there
\* was at least one.
UpdatesCompleted(symbol) ==
    /\ \E t \in Updaters : upc[t] = "done" /\ usym[t] = symbol
    /\ \A t \in Updaters : (upc[t] # "idle" /\ usym[t] = symbol) => upc[t] = "done"

\* C2: once the N update_position calls for a symbol have completed, however
\* the tasks were scheduled, the stored position (size, entry price, current
\* price) is the result of applying the N updates in submission order: every
\* update overwrites the three fields, so it is the last update submitted.
C2_UpdatesApplyInSubmissionOrder ==
    \A symbol \in Symbols :
        UpdatesCompleted(symbol) =>
            /\ symbol \in DOMAIN positions
            /\ positions[symbol].size = submitted[symbol].size
            /\ positions[symbol].entry_price = submitted[symbol].entry_price
            /\ positions[symbol].current_price = submitted[symbol].current_price

\* C3: every write to a position entry or to the position map happens while
\* the writing task holds the lock of each symbol it writes.
C3_WritesUnderLock == last_write.syms \subseteq last_write.held

\* C4: in every reachable state the position map holds no entry of size zero.
C4_NoZeroSizePosition ==
    \A symbol \in DOMAIN positions : positions[symbol].size # 0

(***************************************************************************)
(* The clock.  time.time() never runs backwards here; each specification   *)
(* advances it by the steps that bring its own deadlines within reach.     *)
(***************************************************************************)
Tick(steps) ==
    /\ ticks < MaxTicks
    /\ \E d \in steps : now' = now + d
    /\ ticks' = ticks + 1

(***************************************************************************)
(* OrderExecutor                                                           *)
(***************************************************************************)
MaxOrders == 2        \* execute_order is not called once order_counter is this

\* self.config["trading_engine"]["order_cooldown"], by default
OrderCooldownDefault == 300

\* self.strategy_priorities
StrategyPriorities ==
    [spot |-> [arbitrage |-> 1, breakout_trading |-> 2, momentum |-> 3, ichimoku |-> 3,
               trend_following |-> 4, mean_reversion |-> 5, scalping |-> 6],
     futures |-> [arbitrage |-> 1, scalping |-> 2, momentum |-> 2, ichimoku |-> 3,
                  breakout_trading |-> 3, trend_following |-> 4, mean_reversion |-> 5]]

\* The strategy names callers pass: names of the table, a name the table does
\* not have ("momentum_strategy", the engine's name for momentum) and no name
\* at all (strategy_name=None).
StrategyNames ==
    {"arbitrage", "breakout_trading", "scalping", "mean_reversion",
     "momentum_strategy", "None"}

\* "spot" if symbol.startswith("SPOT:") else "futures"
MarketType(symbol) == IF StartsWith(symbol, "SPOT:") THEN "spot" ELSE "futures"

\* self.strategy_priorities.get(market_type, {}).get(strategy_name, 999)
StrategyPriority(symbol, strategy_name) ==
    LET table == StrategyPriorities[MarketType(symbol)] IN
    IF strategy_name \in DOMAIN table THEN table[strategy_name] ELSE 999

\* The cooldown test of execute_order: TRUE when the call returns None before
\* the try block.
CooldownRejectsNoBypass(symbol, strategy_name, current_time) ==
    /\ symbol \in DOMAIN last_orders
    /\ current_time - last_orders[symbol] < OrderCooldownDefault
CooldownRejects(symbol, strategy_name, current_time) ==
    /\ symbol \in DOMAIN last_orders
    /\ ~(StrategyPriority(symbol, strategy_name) <= 2)
    /\ current_time - last_orders[symbol] < OrderCooldownDefault

\* self.last_orders[symbol] = current_time, the first statement of the try block
StampNotOnAdmission(symbol, current_time) == last_orders
StampOnAdmission(symbol, current_time) ==
    [x \in (DOMAIN last_orders) \cup {symbol} |->
        IF x = symbol THEN current_time ELSE last_orders[x]]

OrderTypes == {"trailing_stop", "oco", "iceberg", "market", "limit"}

\* Whether the handler first awaits the current price: the trailing stop
\* always, OCO and limit when the params carry no price.
AwaitsPrice(order_type, has_price) ==
    \/ order_type = "trailing_stop"
    \/ order_type \in {"oco", "limit"} /\ ~has_price

\* Where the dispatch of execute_order leaves the task: awaiting the price,
\* awaiting the exchange's answer to the order, or nowhere (ValueError).
FirstStep(order_type, has_price) ==
    IF order_type \notin OrderTypes THEN "unsupported"
    ELSE IF AwaitsPrice(order_type, has_price) THEN "price" ELSE "order"

\* Whether the dispatch ends execute_order with an exception in its caller:
\* the ValueError for an unsupported type is raised inside the try block,
\* whose except clause logs it and returns None.
SurfacesError(first) == FALSE

\* execute_order(order_type, params, strategy_name) up to its first
\* suspension: the cooldown test, the stamp, and the dispatch, which raises
\* ValueError for an unsupported type (caught: the call returns None).
ExecuteOrderCall(o) ==
    /\ opc[o] = "idle"
    /\ order_counter < MaxOrders
    /\ \E symbol \in Symbols, strategy_name \in StrategyNames,
          first \in {FirstStep(order_type, has_price) :
                        order_type \in OrderTypes \cup {"stop_limit"},
                        has_price \in BOOLEAN} :
        LET rejected == CooldownRejects(symbol, strategy_name, now)
            supported == first # "unsupported"
        IN  /\ last_call' = [turn |-> 1 - last_call.turn, symbol |-> symbol,
                             strategy_name |-> strategy_name, admitted |-> ~rejected,
                             dispatched |-> ~rejected /\ supported,
                             surfaced |-> ~rejected /\ SurfacesError(first)]
            /\ IF rejected
               THEN UNCHANGED <<last_orders, opc, osym>>
               ELSE /\ last_orders' = StampOnAdmission(symbol, now)
                    /\ IF supported
                       THEN /\ opc' = [opc EXCEPT ![o] = first]
                            /\ osym' = [osym EXCEPT ![o] = symbol]
                       ELSE UNCHANGED <<opc, osym>>
    /\ UNCHANGED <<order_counter, notOE>>

\* The handler's _get_current_price returned a price: the order is sent next.
HandlerPriceFound(o) ==
    /\ opc[o] = "price"
    /\ opc' = [opc EXCEPT ![o] = "order"]
    /\ UNCHANGED <<last_orders, order_counter, osym, last_call, notOE>>

\* The handler's _get_current_price returned None (the handler returns None)
\* or raised (execute_order's except clause returns None).
HandlerPriceMissing(o) ==
    /\ opc[o] = "price"
    /\ opc' = [opc EXCEPT ![o] = "idle"]
    /\ osym' = [osym EXCEPT ![o] = SymbolOrder[1]]
    /\ UNCHANGED <<last_orders, order_counter, last_call, notOE>>

\* self.order_counter += 1, and its doubling.
CountResultTwice(counter) == counter + 2
CountResult(counter) == counter + 1

\* The exchange answered the order with a result: order_counter is
\* incremented and the result returned.
HandlerOrderPlaced(o) ==
    /\ opc[o] = "order"
    /\ opc' = [opc EXCEPT ![o] = "idle"]
    /\ osym' = [osym EXCEPT ![o] = SymbolOrder[1]]
    /\ order_counter' = CountResult(order_counter)
    /\ UNCHANGED <<last_orders, last_call, notOE>>

\* The exchange answered with nothing, or the request raised: None is returned.
HandlerOrderFailed(o) ==
    /\ opc[o] = "order"
    /\ opc' = [opc EXCEPT ![o] = "idle"]
    /\ osym' = [osym EXCEPT ![o] = SymbolOrder[1]]
    /\ UNCHANGED <<last_orders, order_counter, last_call, notOE>>

\* Steps of 100 s reach 100 s, 200 s and 300 s after a stamp.
TickOE ==
    /\ Tick({100})
    /\ UNCHANGED notClock

NextOE ==
    \/ \E o \in OrderTasks : ExecuteOrderCall(o)
    \/ \E o \in OrderTasks : HandlerPriceFound(o)
    \/ \E o \in OrderTasks : HandlerPriceMissing(o)
    \/ \E o \in OrderTasks : HandlerOrderPlaced(o)
    \/ \E o \in OrderTasks : HandlerOrderFailed(o)
    \/ TickOE

SpecOE == Init /\ [][NextOE]_vars

(***************************************************************************)
(* Claims about OrderExecutor                                              *)
(***************************************************************************)
\* The priority the claim gives a strategy on the symbol's market: its entry
\* in the table, 999 for an unknown or missing name.
ClaimedPriority(symbol, strategy_name) ==
    LET market == IF symbol.prefix = "SPOT:" THEN "spot" ELSE "futures" IN
    IF strategy_name \in DOMAIN StrategyPriorities[market]
    THEN StrategyPriorities[market][strategy_name] ELSE 999

\* C5: an execute_order call is rejected (returns None, no handler dispatched,
\* no stamp) if and only if the symbol has a stamp, the strategy's priority is
\* greater than 2 and now - lastOrderTime < cooldown; so a priority 1 or 2
\* order, and any order for a symbol with no stamp, is admitted.
C5_AdmissionRule ==
    [][ last_call' # last_call =>
          LET symbol == last_call'.symbol
              priority == ClaimedPriority(symbol, last_call'.strategy_name)
              rejected == ~last_call'.admitted
          IN  /\ rejected <=> /\ symbol \in DOMAIN last_orders
                              /\ priority > 2
                              /\ now - last_orders[symbol] < OrderCooldownDefault
              /\ rejected => /\ ~last_call'.dispatched
                             /\ opc' = opc
                             /\ last_orders' = last_orders
              /\ priority \in {1, 2} => ~rejected
              /\ symbol \notin DOMAIN last_orders => ~rejected
      ]_vars

\* The spec's example: a non-priority strategy's order 100 s after the stamp
\* was rejected.
C5_Witness ==
    /\ ~last_call.admitted
    /\ last_call.symbol \in DOMAIN last_orders
    /\ ClaimedPriority(last_call.symbol, last_call.strategy_name) > 2
    /\ now - last_orders[last_call.symbol] = 100

\* C6: an admitted execute_order call stamps lastOrderTime[symbol] with the
\* call's time before the handler is dispatched (also when the order type is
\* unsupported), and the stamp stays while the handler is pending and when it
\* returns an order, returns None or raises.
C6_StampBeforeDispatch ==
    /\ [](\A o \in OrderTasks : opc[o] # "idle" => osym[o] \in DOMAIN last_orders)
    /\ [][ /\ (last_call' # last_call /\ last_call'.admitted) =>
                /\ last_call'.symbol \in DOMAIN last_orders'
                /\ last_orders'[last_call'.symbol] = now
           /\ last_call' = last_call => last_orders' = last_orders
         ]_vars

\* A handler is still pending 200 s after its order was stamped.
C6_Witness ==
    \E o \in OrderTasks :
        /\ opc[o] = "order"
        /\ osym[o] \in DOMAIN last_orders
        /\ now - last_orders[osym[o]] >= 200

(***************************************************************************)
(* TradingEngine: execute_trade and check_rate_limits                      *)
(***************************************************************************)
OrderCooldown == 150        \* self.order_cooldown
HourSeconds == 3600         \* the age at which the hourly counters are cleared
MaxHourlyTrades == 5        \* config trading_engine.max_hourly_trades, its default
OrderLockFree(symbol) ==
    /\ ~order_locks[symbol].locked
    /\ order_locks[symbol].waiters = <<>>

\* check_rate_limits, its three tests.
HourlyResetDue(current_time) == current_time - rate_limit_last_reset > HourSeconds

InCooldown(symbol, current_time) == current_time - last_trade_time[symbol] < OrderCooldown

HourlyLimitPassed(count) == count > MaxHourlyTrades
HourlyLimitReached(count) == count >= MaxHourlyTrades

\* self.rate_limit_counter[symbol] += 1
CountAdmission(counters, symbol) == [counters EXCEPT ![symbol] = @ + 1]

\* check_rate_limits(symbol), returning `admitted`: the counters are cleared
\* first when the hour is over, whatever the call then returns; a rejection
\* changes nothing else and an admission counts the trade.  It reads
\* last_trade_time and never writes it.
CheckRateLimits(symbol, admitted) ==
    LET current_time == now
        due == HourlyResetDue(current_time)
        counters == IF due THEN [s \in Symbols |-> 0] ELSE rate_limit_counter
    IN  /\ admitted = (~InCooldown(symbol, current_time) /\ ~HourlyLimitReached(counters[symbol]))
        /\ rate_limit_last_reset' = IF due THEN current_time ELSE rate_limit_last_reset
        /\ rate_limit_counter' = IF admitted THEN CountAdmission(counters, symbol) ELSE counters
        /\ last_check' = [turn |-> 1 - last_check.turn, symbol |-> symbol, admitted |-> admitted,
                           found |-> rate_limit_counter[symbol]]
        /\ UNCHANGED last_trade_time

\* execute_trade from the order lock being held to the first suspension: a
\* rejected trade returns None at once (the lock is released without the
\* task ever yielding); an admitted one awaits set_leverage for a futures
\* symbol and otherwise can_open_position's get_balance.
TradeLocked(e, symbol, waiters) ==
    \E admitted \in BOOLEAN :
        /\ CheckRateLimits(symbol, admitted)
        /\ IF admitted
           THEN /\ tpc' = [tpc EXCEPT ![e] = IF IsFutures(symbol) THEN "set_leverage"
                                                                   ELSE "get_balance"]
                /\ tsym' = [tsym EXCEPT ![e] = symbol]
                /\ order_locks' = [order_locks EXCEPT ![symbol] =
                                     [locked |-> TRUE, waiters |-> waiters]]
           ELSE /\ tpc' = [tpc EXCEPT ![e] = "idle"]
                /\ tsym' = [tsym EXCEPT ![e] = SymbolOrder[1]]
                /\ order_locks' = [order_locks EXCEPT ![symbol] =
                                     [locked |-> FALSE, waiters |-> waiters]]

\* execute_trade(symbol, ...) is called by task e: the order lock is free and
\* the body runs, or the task queues behind the holder.
ExecuteTradeCall(e) ==
    /\ tpc[e] = "idle"
    /\ \E symbol \in Symbols :
         IF OrderLockFree(symbol)
         THEN TradeLocked(e, symbol, order_locks[symbol].waiters)
         ELSE /\ tpc' = [tpc EXCEPT ![e] = "waiting"]
              /\ tsym' = [tsym EXCEPT ![e] = symbol]
              /\ order_locks' = [order_locks EXCEPT ![symbol].waiters = Append(@, e)]
              /\ UNCHANGED <<last_trade_time, rate_limit_counter, rate_limit_last_reset,
                             last_check>>
    /\ UNCHANGED notRL

\* The order lock was released and task e is its first waiter.
ExecuteTradeResume(e) ==
    /\ tpc[e] = "waiting"
    /\ ~order_locks[tsym[e]].locked
    /\ order_locks[tsym[e]].waiters # <<>>
    /\ Head(order_locks[tsym[e]].waiters) = e
    /\ TradeLocked(e, tsym[e], Tail(order_locks[tsym[e]].waiters))
    /\ UNCHANGED notRL

\* exchange.set_leverage returned (it catches its own errors and returns
\* None): can_open_position is called and awaits get_balance.
TradeLeverageSet(e) ==
    /\ tpc[e] = "set_leverage"
    /\ tpc' = [tpc EXCEPT ![e] = "get_balance"]
    /\ UNCHANGED <<order_locks, last_trade_time, rate_limit_counter, rate_limit_last_reset,
                   tsym, last_check, notRL>>

\* can_open_position: get_balance returned or raised.  An error and an equity
\* of zero return False; any other equity is a float by which the Decimal
\* position value is divided, which raises TypeError, caught by
\* can_open_position's own handler, which returns False as well.  execute_trade
\* therefore returns None here: no order is created, update_position is not
\* called and last_trade_time is not stamped.
TradeRefused(e) ==
    /\ tpc[e] = "get_balance"
    /\ tpc' = [tpc EXCEPT ![e] = "idle"]
    /\ tsym' = [tsym EXCEPT ![e] = SymbolOrder[1]]
    /\ order_locks' = [order_locks EXCEPT ![tsym[e]].locked = FALSE]
    /\ UNCHANGED <<last_trade_time, rate_limit_counter, rate_limit_last_reset,
                   last_check, notRL>>

\* The clock of this specification: steps that end inside and outside the
\* cooldown, and on either side of the hour.
TickRL ==
    /\ Tick({100, 3500, 3501})
    /\ UNCHANGED notClock

NextRL ==
    \/ \E e \in TradeTasks : ExecuteTradeCall(e)
    \/ \E e \in TradeTasks : ExecuteTradeResume(e)
    \/ \E e \in TradeTasks : TradeLeverageSet(e)
    \/ \E e \in TradeTasks : TradeRefused(e)
    \/ TickRL

\* last_trade_time is 0.0 for every symbol throughout (no behaviour stamps
\* it), which is inside the cooldown only while time.time() < 150: the
\* engine is constructed with the clock at the epoch so that both outcomes of
\* the cooldown test occur.
SpecRL == InitAt(0) /\ [][NextRL]_vars

(***************************************************************************)
(* Claims about the engine's rate limiter                                  *)
(***************************************************************************)
\* C7: check_rate_limits is all-or-nothing: a call that admits the signal
\* updates the symbol's last-trade timestamp and increments the symbol's
\* hourly counter, and a call that rejects it changes no rate-limit state
\* (last-trade timestamps, hourly counters, counter-reset timestamp).
C7_AllOrNothing ==
    [][ last_check' # last_check =>
          LET symbol == last_check'.symbol IN
          IF last_check'.admitted
          THEN /\ last_trade_time'[symbol] = now
               /\ rate_limit_counter'[symbol] = rate_limit_counter[symbol] + 1
          ELSE /\ last_trade_time' = last_trade_time
               /\ rate_limit_counter' = rate_limit_counter
               /\ rate_limit_last_reset' = rate_limit_last_reset ]_vars

\* The symbol's hourly counter as the call finds it in the current hourly
\* window: 0 when the window that counted it is over.
CounterInWindow(symbol) ==
    IF now - rate_limit_last_reset > 3600 THEN 0 ELSE rate_limit_counter[symbol]

\* C8: check_rate_limits admits a signal for a symbol if and only if
\* now - lastTradeTime[symbol] >= orderCooldown (150) and the symbol's hourly
\* counter is below maxHourlyTrades (5); the per-symbol counter never exceeds
\* maxHourlyTrades, and a signal that finds five trades of its symbol counted
\* in the current window (the 6th) is rejected.
C8_AdmitsIffCooldownPassedAndBelowLimit ==
    /\ [][ last_check' # last_check =>
             LET symbol == last_check'.symbol IN
             /\ last_check'.admitted <=>
                    (now - last_trade_time[symbol] >= 150 /\ CounterInWindow(symbol) < 5)
             /\ CounterInWindow(symbol) = 5 => ~last_check'.admitted ]_vars
    /\ [](\A symbol \in Symbols : rate_limit_counter[symbol] <= 5)

\* The 6th signal of a window was rejected with the cooldown long passed.
C8_Witness ==
    /\ last_check.turn = 1
    /\ ~last_check.admitted
    /\ rate_limit_counter[last_check.symbol] = 5
    /\ now - last_trade_time[last_check.symbol] >= 150
    /\ now - rate_limit_last_reset <= 3600

(***************************************************************************)
(* RiskManager                                                             *)
(***************************************************************************)
MaxDailyLoss == 2       \* self.max_daily_loss, from the configuration
MaxPositions == 2       \* self.max_positions, from the configuration
DaySeconds == 86400     \* the age at which the daily loss is reset

Pnls == (0 - MaxPnl)..MaxPnl

\* time.time() - self.last_reset > 86400
ResetDueAtDay(elapsed) == elapsed >= DaySeconds
ResetDue(elapsed) == elapsed > DaySeconds

\* self.daily_loss < self.max_daily_loss and self.open_positions < self.max_positions
CanTradeLossOnly(loss, count) == loss < MaxDailyLoss
CanTrade(loss, count) == loss < MaxDailyLoss /\ count < MaxPositions

\* check_daily_loss().  The reset reads time.time() a second time for
\* last_reset: the clock may have moved on by then (lag).
CheckDailyLoss ==
    LET elapsed == now - last_reset
        due == ResetDue(elapsed)
    IN  \E lag \in IF due THEN {0, 1} ELSE {0} :
          /\ now' = now + lag
          /\ daily_loss' = IF due THEN 0 ELSE daily_loss
          /\ last_reset' = IF due THEN now' ELSE last_reset
          /\ last_risk' = [turn |-> 1 - last_risk.turn, op |-> "check_daily_loss",
                           pnl |-> 0, elapsed |-> elapsed,
                           exceeded |-> (daily_loss >= MaxDailyLoss),
                           reset |-> due,
                           result |-> CanTrade(daily_loss', open_positions)]
          /\ UNCHANGED <<open_positions, ticks, notRM>>

\* position_change = 1 if pnl > 0 else -1
PositionChangeKeepsAtZero(pnl) == IF pnl > 0 THEN 1 ELSE IF pnl < 0 THEN 0 - 1 ELSE 0
PositionChange(pnl) == IF pnl > 0 THEN 1 ELSE 0 - 1

\* update_risk(pnl), for a pnl the Decimal daily loss can be added to (an int
\* or a Decimal).
UpdateRisk(pnl) ==
    /\ daily_loss + Abs(pnl) <= MaxLoss
    /\ open_positions < MaxOpen
    /\ daily_loss' = IF pnl < 0 THEN daily_loss + Abs(pnl) ELSE daily_loss
    /\ open_positions' = Max(0, open_positions + PositionChange(pnl))
    /\ last_risk' = [turn |-> 1 - last_risk.turn, op |-> "update_risk", pnl |-> pnl,
                     elapsed |-> now - last_reset, exceeded |-> (daily_loss >= MaxDailyLoss),
                     reset |-> FALSE, result |-> FALSE]
    /\ UNCHANGED <<last_reset, clockVars, notRM>>

\* The clock of this specification: two steps end on the day or just past it.
TickRM ==
    /\ Tick({43200, 43201})
    /\ UNCHANGED notClock

NextRM ==
    \/ CheckDailyLoss
    \/ \E pnl \in Pnls : UpdateRisk(pnl)
    \/ TickRM

SpecRM == Init /\ [][NextRM]_vars

(***************************************************************************)
(* Claims about RiskManager                                                *)
(***************************************************************************)
\* C9: check_daily_loss first performs the time-based reset check and then
\* returns true if and only if, on the values after that check, dailyLoss <
\* maxDailyLoss and openPositions < maxOpenPositions; with lastReset =
\* now - 86401 the daily loss is 0 when the condition is evaluated, so a daily
\* loss that was exceeded no longer blocks trading.
C9_ResetThenCondition ==
    [][ (last_risk' # last_risk /\ last_risk'.op = "check_daily_loss") =>
          /\ last_risk'.result <=>
                 (daily_loss' < MaxDailyLoss /\ open_positions' < MaxPositions)
          /\ now - last_reset = 86401 =>
                 /\ daily_loss' = 0
                 /\ open_positions < MaxPositions => last_risk'.result ]_vars

\* A check 86401 seconds after the last reset found the loss limit exceeded,
\* reset the loss and allowed trading.
C9_Witness ==
    /\ last_risk.op = "check_daily_loss"
    /\ last_risk.elapsed = 86401
    /\ last_risk.exceeded
    /\ last_risk.reset
    /\ last_risk.result
    /\ daily_loss = 0

\* C10 as claimed: the reset fires exactly when at least 86400 seconds have
\* elapsed since the prior reset: a call with now - lastReset >= 86400 sets
\* dailyLoss to 0 and lastReset to now and leaves the position counter, a call
\* with now - lastReset < 86400 changes no field, and a second call
\* immediately after a reset does not reset again.
C10_ResetAtLeastDay ==
    [][ (last_risk' # last_risk /\ last_risk'.op = "check_daily_loss") =>
          /\ now - last_reset >= 86400 =>
                 /\ daily_loss' = 0
                 /\ last_reset' = now'
                 /\ open_positions' = open_positions
          /\ now - last_reset < 86400 =>
                 /\ daily_loss' = daily_loss
                 /\ last_reset' = last_reset
                 /\ open_positions' = open_positions
          /\ (last_risk.reset /\ last_reset = now) => ~last_risk'.reset ]_vars

\* C10 as the code has it: the reset fires exactly when more than 86400
\* seconds have elapsed since the prior reset: a call with now - lastReset >
\* 86400 sets dailyLoss to 0 and lastReset to now and leaves the position
\* counter, a call with now - lastReset <= 86400 changes no field, and a
\* second call immediately after a reset does not reset again.
C10_ResetAfterMoreThanDay ==
    [][ (last_risk' # last_risk /\ last_risk'.op = "check_daily_loss") =>
          /\ last_risk'.reset <=> now - last_reset > 86400
          /\ now - last_reset > 86400 =>
                 /\ daily_loss' = 0
                 /\ last_reset' = now'
                 /\ open_positions' = open_positions
          /\ now - last_reset <= 86400 =>
                 /\ daily_loss' = daily_loss
                 /\ last_reset' = last_reset
                 /\ open_positions' = open_positions
          /\ (last_risk.reset /\ last_reset = now) => ~last_risk'.reset ]_vars

\* A check exactly 86400 seconds after the last reset left a daily loss in
\* place.
C10_Witness ==
    /\ last_risk.op = "check_daily_loss"
    /\ last_risk.elapsed = 86400
    /\ ~last_risk.reset
    /\ daily_loss > 0
    /\ now - last_reset = 86400

\* C11: update_risk(pnl) adds exactly |pnl| to the daily loss when pnl < 0
\* and leaves it otherwise; the position counter becomes max(0, counter + 1)
\* when pnl > 0 and max(0, counter - 1) otherwise, pnl = 0 included; after any
\* sequence of update_risk and check_daily_loss calls the counter and the
\* daily loss are non-negative and the daily loss decreases only at a reset.
C11_UpdateRisk ==
    /\ [][ (last_risk' # last_risk /\ last_risk'.op = "update_risk") =>
             LET pnl == last_risk'.pnl IN
             /\ pnl < 0 => daily_loss' = daily_loss - pnl
             /\ pnl >= 0 => daily_loss' = daily_loss
             /\ pnl > 0 => open_positions' = open_positions + 1
             /\ pnl <= 0 => open_positions' = (IF open_positions = 0 THEN 0
                                                ELSE open_positions - 1) ]_vars
    /\ [][ daily_loss' < daily_loss =>
             (last_risk'.op = "check_daily_loss" /\ last_risk'.reset /\ daily_loss' = 0) ]_vars
    /\ [](open_positions >= 0 /\ daily_loss >= 0)

\* update_risk(0) has just floored the position counter at 0 with a loss on
\* the books.
C11_Witness ==
    /\ last_risk.op = "update_risk"
    /\ last_risk.pnl = 0
    /\ open_positions = 0
    /\ daily_loss > 0

\* ------------------------------------------------------------------
\* TradingEngine: lifecycle under main(), the four background tasks
\* ------------------------------------------------------------------

\* A task that is not running: never created, returned, ended by an
\* exception, or ended by CancelledError.
Done == {"none", "ended", "failed", "cancelled"}

\* stop() sets is_running to this.
IsRunningAfterStopKept == is_running

IsRunningAfterStop == FALSE

\* stop() cancels the tasks of self.tasks: these, given the ones not yet done
\* (cancel() on a finished task does nothing).
CancelledByStopNone(live) == {}

CancelledByStop(live) == live

\* stop(): is_running cleared, every task cancelled, the notification sent.
\* send_notification posts with the blocking requests library inside a
\* try/except, so stop() neither suspends nor raises: it is one step.
StopEngine ==
    /\ is_running' = IsRunningAfterStop
    /\ cancel_req' = [l \in Loops |->
                        l \in CancelledByStop({k \in Loops : lpc[k] \notin Done})]

\* main(): get_account_balances returned or raised.  With both balances
\* under 10, or on an exception, main() ends without starting the engine;
\* otherwise it calls start(), which sets is_running and awaits
\* position_manager.initialize(), that is, sync_positions.
MainBalances ==
    /\ mpc = "main_balances"
    /\ \E outcome \in {"ok", "low", "raised"} :
         IF outcome = "ok"
         THEN /\ is_running' = TRUE
              /\ mpc' = "initializing"
              /\ sy' = [IdleSync EXCEPT !.pc = "fetch", !.caller = "initialize"]
         ELSE /\ mpc' = "exited"
              /\ UNCHANGED <<is_running, sy>>
    /\ UNCHANGED <<positions, position_locks, upc, usym, uupd, submitted, last_write,
                   lpc, cancel_req, active_orders, order_status, cpass,
                   signals_made, last_signal, last_loop, notEN>>

\* gather() raises the exception of a task that failed: start() reports it
\* and re-raises with is_running still set, main() reports it, and main()'s
\* finally clause calls stop().
GatherFails ==
    /\ mpc = "gathering"
    /\ \E l \in Loops : lpc[l] = "failed"
    /\ StopEngine
    /\ mpc' = "exited"
    /\ UNCHANGED <<pmVars, lpc, active_orders, order_status, cpass,
                   signals_made, last_signal, last_loop, notEN>>

\* main() is interrupted while start() awaits: the exception passes through
\* start() (which catches Exception only) and main()'s finally clause calls
\* stop().  A sync_positions call made by initialize() is abandoned.
Interrupt ==
    /\ mpc \in {"initializing", "gathering"}
    /\ StopEngine
    /\ mpc' = "exited"
    /\ sy' = IF mpc = "initializing" THEN IdleSync ELSE sy
    /\ UNCHANGED <<positions, position_locks, upc, usym, uupd, submitted, last_write,
                   lpc, active_orders, order_status, cpass,
                   signals_made, last_signal, last_loop, notEN>>

\* CancelledError is thrown into a cancelled task at the await it is
\* suspended at; no loop catches it (they catch Exception), so the task ends.
TaskCancelled(l) ==
    /\ cancel_req[l]
    /\ lpc[l] \notin Done
    /\ lpc' = [lpc EXCEPT ![l] = "cancelled"]
    /\ cancel_req' = [cancel_req EXCEPT ![l] = FALSE]
    /\ sy' = IF l = "monitor" /\ sy.caller = "engine" THEN IdleSync ELSE sy
    /\ cpass' = IF l = "cleanup" THEN << >> ELSE cpass
    /\ last_loop' = [loop |-> l, step |-> "cancelled", wait |-> 0]
    /\ UNCHANGED <<positions, position_locks, upc, usym, uupd, submitted, last_write,
                   is_running, mpc, active_orders, order_status,
                   signals_made, last_signal, notEN>>

\* A step of task l is taken only when no cancellation is pending for it.
Runs(l, at) == lpc[l] \in at /\ ~cancel_req[l]

\* monitor_positions: the task starts, or wakes from its sleep (10 seconds
\* after an iteration, 30 after a failure), tests is_running and awaits
\* sync_positions.
MonitorIterate ==
    /\ Runs("monitor", {"created", "sleep", "backoff"})
    /\ sy.pc = "idle"
    /\ IF is_running
       THEN /\ lpc' = [lpc EXCEPT !["monitor"] = "sync"]
            /\ sy' = [IdleSync EXCEPT !.pc = "fetch", !.caller = "engine"]
       ELSE /\ lpc' = [lpc EXCEPT !["monitor"] = "ended"]
            /\ sy' = sy
    /\ last_loop' = [loop |-> "monitor", step |-> "test", wait |-> 0]
    /\ UNCHANGED <<positions, position_locks, upc, usym, uupd, submitted, last_write,
                   is_running, mpc, cancel_req, active_orders, order_status, cpass,
                   signals_made, last_signal, notEN>>

\* update_performance_metrics: the task starts, or wakes from its sleep (300
\* seconds), tests is_running, recomputes the metrics from the (empty) trade
\* history without suspending and sleeps again.
MetricsIterate ==
    /\ Runs("metrics", {"created", "sleep"})
    /\ lpc' = [lpc EXCEPT !["metrics"] = IF is_running THEN "sleep" ELSE "ended"]
    /\ last_loop' = [loop |-> "metrics", step |-> "iteration",
                     wait |-> IF is_running THEN MetricsInterval ELSE 0]
    /\ UNCHANGED <<pmVars, is_running, mpc, cancel_req, active_orders, order_status,
                   cpass, signals_made, last_signal, notEN>>

\* cleanup_orders: what the task does after an iteration that raised.
AfterFailedIterationEnds == "failed"

AfterFailedIteration == "backoff"

\* cleanup_orders: the task starts, or wakes from a sleep (60 seconds after
\* a pass, 30 after a failure), tests is_running, takes a copy of the
\* registry's keys and awaits fetch_order for the first; with an empty
\* registry it sleeps at once.
CleanupIterate ==
    /\ Runs("cleanup", {"created", "sleep", "backoff"})
    /\ IF ~is_running
       THEN /\ lpc' = [lpc EXCEPT !["cleanup"] = "ended"]
            /\ cpass' = << >>
            /\ last_loop' = [loop |-> "cleanup", step |-> "test", wait |-> 0]
       ELSE IF active_orders = << >>
       THEN /\ lpc' = [lpc EXCEPT !["cleanup"] = "sleep"]
            /\ cpass' = << >>
            /\ last_loop' = [loop |-> "cleanup", step |-> "iteration",
                             wait |-> CleanupInterval]
       ELSE /\ lpc' = [lpc EXCEPT !["cleanup"] = "poll"]
            /\ cpass' = active_orders
            /\ last_loop' = [loop |-> "cleanup", step |-> "test", wait |-> 0]
    /\ UNCHANGED <<pmVars, is_running, mpc, cancel_req, active_orders, order_status,
                   signals_made, last_signal, notEN>>

\* The registry without order o.
Unregistered(o) == SelectSeq(active_orders, LAMBDA x : x # o)

\* The test cleanup_orders makes on the status fetch_order returned.
ShouldDeleteAny(status) == TRUE

ShouldDelete(status) == status \in {"filled", "cancelled"}

\* fetch_order returned for the order at hand: the order is deleted from the
\* registry if its status is filled or cancelled, and the pass goes on to the
\* next key of its copy, or the task sleeps.
CleanupPolled ==
    /\ Runs("cleanup", {"poll"})
    /\ LET o == Head(cpass) IN
         active_orders' = IF ShouldDelete(order_status[o]) THEN Unregistered(o)
                          ELSE active_orders
    /\ cpass' = Tail(cpass)
    /\ lpc' = [lpc EXCEPT !["cleanup"] = IF Tail(cpass) = << >> THEN "sleep" ELSE "poll"]
    /\ last_loop' = [loop |-> "cleanup",
                     step |-> IF ShouldDelete(order_status[Head(cpass)])
                              THEN "removed" ELSE "kept",
                     wait |-> IF Tail(cpass) = << >> THEN CleanupInterval ELSE 0]
    /\ UNCHANGED <<pmVars, is_running, mpc, cancel_req, order_status,
                   signals_made, last_signal, notEN>>

\* fetch_order raised (or its reply has no status): the except clause logs,
\* the rest of the pass is given up and the task sleeps 30 seconds.
CleanupPollFailed ==
    /\ Runs("cleanup", {"poll"})
    /\ lpc' = [lpc EXCEPT !["cleanup"] = AfterFailedIteration]
    /\ cpass' = << >>
    /\ last_loop' = [loop |-> "cleanup", step |-> "failed", wait |-> CleanupBackoff]
    /\ UNCHANGED <<pmVars, is_running, mpc, cancel_req, active_orders, order_status,
                   signals_made, last_signal, notEN>>

\* On the exchange an open order is filled or cancelled.
OrderCloses(o) ==
    /\ order_status[o] = "open"
    /\ \E status \in {"filled", "cancelled"} :
         order_status' = [order_status EXCEPT ![o] = status]
    /\ UNCHANGED <<pmVars, is_running, mpc, lpc, cancel_req, active_orders, cpass,
                   signals_made, last_signal, last_loop, notEN>>

\* ------------------------------------------------------------------
\* TradingEngine: process_signal and the market scanner
\* ------------------------------------------------------------------

\* main() constructs the engine with a RiskManager and an OrderExecutor.
ComponentsWired == TRUE

\* What `await self.risk_manager.validate_trade(...)` can do: RiskManager
\* defines no validate_trade, so the attribute lookup raises AttributeError.
RiskStepOutcomes == {"raises"}

\* How a process_signal call ends, given what the risk step did.  An accepted
\* signal goes on to execute_order(symbol=, side=, price=, size=, order_type=),
\* keywords that OrderExecutor.execute_order(order_type, params,
\* strategy_name) does not take: the call raises TypeError before it runs.
SignalOutcome(risk) ==
    IF ~ComponentsWired THEN "unwired"
    ELSE IF risk = "rejected" THEN "rejected"
    ELSE "exception"

\* The order reached OrderExecutor: execute_order ran.
HandedOnAny(risk) == TRUE

HandedOn(risk) == FALSE

\* update_position was called and returned.
UpdatedOn(outcome) == outcome = "done"

\* The trade notification was sent.
NotifiedOnAny(outcome) == TRUE

NotifiedOn(outcome) == outcome = "done"

\* The call raised into its caller: the except clause catches Exception.
PropagatesException(outcome) == outcome = "exception"

Propagates(outcome) == FALSE

\* process_signal for the signal numbered id.  Nothing in it suspends: the
\* first await is reached only through validate_trade.
ProcessSignal(id, risk) ==
    [id |-> id, risk |-> risk,
     outcome |-> SignalOutcome(risk),
     handed |-> HandedOn(risk),
     updated |-> UpdatedOn(SignalOutcome(risk)),
     notified |-> NotifiedOn(SignalOutcome(risk)),
     propagated |-> Propagates(SignalOutcome(risk))]

\* scan_market: the task starts; load_strategies loads nothing (every
\* strategy class is constructed with three arguments and takes two, and the
\* TypeError is caught per strategy), and the task awaits the balances.
ScannerStart ==
    /\ Runs("scanner", {"created"})
    /\ lpc' = [lpc EXCEPT !["scanner"] = "balances"]
    /\ last_loop' = [loop |-> "scanner", step |-> "launched", wait |-> 0]
    /\ UNCHANGED <<pmVars, is_running, mpc, cancel_req, active_orders, order_status,
                   cpass, signals_made, last_signal, notEN>>

\* The head of scan_market's while loop: is_running is tested and
\* get_liquid_pairs awaited.
ScanIterate ==
    IF is_running
    THEN /\ lpc' = [lpc EXCEPT !["scanner"] = "pairs"]
         /\ last_loop' = [loop |-> "scanner", step |-> "test", wait |-> 0]
    ELSE /\ lpc' = [lpc EXCEPT !["scanner"] = "ended"]
         /\ last_loop' = [loop |-> "scanner", step |-> "ended", wait |-> 0]

\* get_account_balances returned or raised.  An exception leaves scan_market
\* (the call is outside the loop's try); with both balances under 10 the
\* task notifies and returns; otherwise it enters its loop.
ScannerBalances ==
    /\ Runs("scanner", {"balances"})
    /\ \E outcome \in {"raised", "low", "ok"} :
         CASE outcome = "raised" ->
                /\ lpc' = [lpc EXCEPT !["scanner"] = "failed"]
                /\ last_loop' = [loop |-> "scanner", step |-> "raised", wait |-> 0]
           [] outcome = "low" ->
                /\ lpc' = [lpc EXCEPT !["scanner"] = "ended"]
                /\ last_loop' = [loop |-> "scanner", step |-> "returned", wait |-> 0]
           [] OTHER -> ScanIterate
    /\ UNCHANGED <<pmVars, is_running, mpc, cancel_req, active_orders, order_status,
                   cpass, signals_made, last_signal, notEN>>

\* scan_market: what the task does after an iteration that raised.
AfterScanFailureEnds == "failed"

AfterScanFailure == "backoff"

\* get_liquid_pairs returned or raised: an exception is caught by the loop's
\* except clause (sleep 60), an empty list leads to sleep 60 and continue,
\* and with pairs analyze_markets awaits get_market_data.
ScannerPairs ==
    /\ Runs("scanner", {"pairs"})
    /\ \E outcome \in {"raised", "empty", "pairs"} :
         CASE outcome = "raised" ->
                /\ lpc' = [lpc EXCEPT !["scanner"] = AfterScanFailure]
                /\ last_loop' = [loop |-> "scanner", step |-> "failed",
                                 wait |-> ScanBackoff]
           [] outcome = "empty" ->
                /\ lpc' = [lpc EXCEPT !["scanner"] = "sleep"]
                /\ last_loop' = [loop |-> "scanner", step |-> "empty",
                                 wait |-> NoPairsWait]
           [] OTHER ->
                /\ lpc' = [lpc EXCEPT !["scanner"] = "market_data"]
                /\ last_loop' = [loop |-> "scanner", step |-> "pairs", wait |-> 0]
    /\ UNCHANGED <<pmVars, is_running, mpc, cancel_req, active_orders, order_status,
                   cpass, signals_made, last_signal, notEN>>

\* analyze_markets: get_market_data returned, and generate_signals is
\* awaited; or it raised, analyze_markets logs and returns, the loop over
\* the (empty) self.strategies does nothing and the task sleeps its interval.
ScannerMarketData ==
    /\ Runs("scanner", {"market_data"})
    /\ \E outcome \in {"raised", "data"} :
         IF outcome = "raised"
         THEN /\ lpc' = [lpc EXCEPT !["scanner"] = "sleep"]
              /\ last_loop' = [loop |-> "scanner", step |-> "iteration",
                               wait |-> ScanInterval]
         ELSE /\ lpc' = [lpc EXCEPT !["scanner"] = "generate"]
              /\ last_loop' = [loop |-> "scanner", step |-> "data", wait |-> 0]
    /\ UNCHANGED <<pmVars, is_running, mpc, cancel_req, active_orders, order_status,
                   cpass, signals_made, last_signal, notEN>>

\* generate_signals returned n signals (it catches what a strategy raises):
\* process_signal is applied to each in turn, then the loop over the (empty)
\* self.strategies does nothing and the task sleeps its interval.
ScannerGenerated ==
    /\ Runs("scanner", {"generate"})
    /\ \E n \in 0..MaxBatch :
         /\ signals_made + n <= MaxSignals
         /\ signals_made' = signals_made + n
         /\ \E risk \in RiskStepOutcomes :
              last_signal' = IF n = 0 THEN last_signal
                             ELSE ProcessSignal(signals_made + n, risk)
    /\ lpc' = [lpc EXCEPT !["scanner"] = "sleep"]
    /\ last_loop' = [loop |-> "scanner", step |-> "iteration", wait |-> ScanInterval]
    /\ UNCHANGED <<pmVars, is_running, mpc, cancel_req, active_orders, order_status,
                   cpass, notEN>>

\* The scanner wakes from a sleep and goes to the head of its loop.
ScannerWakes ==
    /\ Runs("scanner", {"sleep", "backoff"})
    /\ ScanIterate
    /\ UNCHANGED <<pmVars, is_running, mpc, cancel_req, active_orders, order_status,
                   cpass, signals_made, last_signal, notEN>>

\* ------------------------------------------------------------------
\* The engine under main()
\* ------------------------------------------------------------------

\* The steps of main() and of the tasks that never touch a registered order.
EngineStep ==
    \/ MainBalances
    \/ SyncPositionsFetched
    \/ SyncPositionsFailed
    \/ SyncPositionsPriced
    \/ GatherFails
    \/ Interrupt
    \/ \E l \in Loops : TaskCancelled(l)
    \/ MonitorIterate
    \/ MetricsIterate
    \/ CleanupIterate
    \/ ScannerStart
    \/ ScannerBalances
    \/ ScannerPairs
    \/ ScannerMarketData
    \/ ScannerGenerated
    \/ ScannerWakes

NextEngine == EngineStep

\* The program as main() runs it: the registry starts empty.
SpecEngine == Init /\ [][NextEngine]_vars

\* ------------------------------------------------------------------
\* cleanup_orders over a registry that holds orders
\* ------------------------------------------------------------------

\* The registries of up to MaxRegistered orders, in insertion order.
Registries ==
    { r \in UNION { [1..n -> OrderIds] : n \in 0..MaxRegistered } :
        \A i, j \in DOMAIN r : i # j => r[i] # r[j] }

\* The steps that exist only when the registry holds an order.
RegistryStep ==
    \/ CleanupPolled
    \/ CleanupPollFailed
    \/ \E o \in OrderIds : OrderCloses(o)

\* main() and the cleanup task.  The other three tasks leave the registry,
\* the orders' statuses and the pass of cleanup_orders alone (see the frames
\* of their actions), so here only their cancellation is followed; their
\* own steps are those of SpecEngine.
NextCleanup ==
    \/ MainBalances
    \/ SyncPositionsFetched
    \/ SyncPositionsFailed
    \/ SyncPositionsPriced
    \/ Interrupt
    \/ \E l \in Loops : TaskCancelled(l)
    \/ CleanupIterate
    \/ RegistryStep

\* Under main() nothing reaches the lines that register an order (trading_
\* engine.py:221, 232, 243: can_open_position refuses every trade), so the
\* registry is given here as an input of cleanup_orders: the engine starts
\* with any registry of open orders.
InitCleanup == InitButRegistry(StartTime) /\ active_orders \in Registries

\* The event loop runs every task that can go on, every awaited call
\* returns, and a fetch_order that is tried over and over for an order
\* comes to succeed.  Nothing obliges main() to be interrupted.
FairCleanup ==
    /\ WF_vars(MainBalances)
    /\ WF_vars(SyncPositionsFetched \/ SyncPositionsFailed \/ SyncPositionsPriced)
    /\ WF_vars(CleanupIterate)
    /\ \A l \in Loops : WF_vars(TaskCancelled(l))
    /\ \A o \in OrderIds : SF_vars(CleanupPolled /\ cpass # << >> /\ Head(cpass) = o)

SpecCleanup == InitCleanup /\ [][NextCleanup]_vars /\ FairCleanup

(***************************************************************************)
(* Claims: TradingEngine                                                   *)
(***************************************************************************)

\* C12: the engine's lifecycle is Stopped -> Running -> Stopping -> Stopped.
\* is_running becomes true only in start(), called from Stopped; it becomes
\* false only in stop(), called from Running, and stop() ends in Stopped and
\* the engine stays there (Stopping is the inside of stop(), which does not
\* suspend).  While start() awaits, the engine is Running.
C12_Lifecycle ==
    /\ [][is_running' # is_running =>
            \/ ~is_running /\ mpc = "main_balances" /\ mpc' = "initializing"
            \/ is_running /\ mpc \in {"initializing", "gathering"} /\ mpc' = "exited"]_vars
    /\ [][mpc' = "initializing" /\ mpc # "initializing" => ~is_running /\ is_running']_vars
    /\ [](mpc \in {"initializing", "gathering"} => is_running)
    /\ [](mpc = "exited" => ~is_running)
    /\ [][mpc = "exited" => mpc' = "exited"]_vars

\* stop() has run on an engine whose four tasks had been launched.
C12_Witness ==
    /\ mpc = "exited"
    /\ ~is_running
    /\ \A l \in Loops : lpc[l] # "none"

\* C13: stop() cancels all four background tasks, and once it has run no
\* task takes a step other than the end by cancellation: none starts an
\* iteration, none goes on with one, and the position map is not written.
C13_StopCancelsLoops ==
    /\ [](mpc = "exited" => \A l \in Loops : lpc[l] \in Done \/ cancel_req[l])
    /\ [][mpc = "exited" =>
            /\ \A l \in Loops : lpc'[l] = lpc[l] \/ lpc'[l] = "cancelled"
            /\ last_loop' = last_loop \/ last_loop'.step = "cancelled"
            /\ positions' = positions]_vars

\* After stop() all four tasks have ended by cancellation.
C13_Witness ==
    /\ mpc = "exited"
    /\ \A l \in Loops : lpc[l] = "cancelled"

C15_NotRejectedIsHanded ==
    last_signal.id # 0 /\ last_signal.outcome \notin {"unwired", "rejected"}
      => last_signal.handed

InScanLoop == lpc["scanner"] \in {"pairs", "market_data", "generate", "sleep", "backoff"}

\* C18 as stated: once launched, and while the engine is running, the
\* scanner task has not ended.
C18_LaunchedScannerNeverEnds ==
    is_running => lpc["scanner"] \notin {"ended", "failed", "cancelled"}

\* C18, amended: once the scanner has entered its loop it leaves it only by
\* cancellation, which stop() alone requests; an iteration that raised or
\* found no pair is followed by a sleep of 60 seconds, and what follows the
\* sleep is the next iteration.
C18_ScanLoopNeverEnds ==
    /\ [][InScanLoop /\ ~InScanLoop'
            => lpc'["scanner"] = "cancelled" /\ ~is_running]_vars
    /\ [][last_loop' # last_loop /\ last_loop'.loop = "scanner"
                                 /\ last_loop'.step \in {"failed", "empty"}
            => /\ last_loop'.wait = 60
               /\ lpc'["scanner"] \in {"sleep", "backoff"}
               /\ is_running']_vars
    /\ [][lpc["scanner"] \in {"sleep", "backoff"} /\ lpc'["scanner"] # lpc["scanner"]
            => lpc'["scanner"] \in {"pairs", "cancelled"}]_vars

\* An iteration raised: the scanner backs off, the engine running.
C18_Witness ==
    /\ last_loop = [loop |-> "scanner", step |-> "failed", wait |-> ScanBackoff]
    /\ lpc["scanner"] = "backoff"
    /\ is_running

IsTerminal(status) == status # "open"

\* Order o is in the registry.
Registered(o) == \E i \in DOMAIN active_orders : active_orders[i] = o

EntryPrices == (1..MaxPrice) \cup {100}

\* Leverages in tenths: 0.5, 1, 2, 2.5, 4, 5, 8, 10 and 20.
Leverages == {5, 10, 20, 25, 40, 50, 80, 100, 200}

\* Maintenance margin ratios in thousandths; 0.005 is the default.
MarginRatios == {0, 5, 10}

Directions == {"long", "short"}

\* One call of the function.
CalculateLiquidationPrice ==
    /\ \E entry_price \in EntryPrices, leverage \in Leverages,
          direction \in Directions, ratio \in MarginRatios :
         last_calc' = [called |-> TRUE, entry_price |-> entry_price,
                       leverage |-> leverage, direction |-> direction, ratio |-> ratio,
                       result |-> calculate_kucoin_liquidation_price(
                                     entry_price, leverage, direction, ratio)]
    /\ UNCHANGED <<openVars, corrVars, notCK>>

NextLiq == CalculateLiquidationPrice

SpecLiq == Init /\ [][NextLiq]_vars

(***************************************************************************)
(* PositionManager.can_open_position                                       *)
(*                                                                         *)
(* Numbers carry their Python type: arithmetic between a Decimal and a     *)
(* float raises TypeError.                                                 *)
(***************************************************************************)
DecimalOf(x) == [type |-> "Decimal", v |-> x]
FloatOf(x) == [type |-> "float", v |-> x]
MixedTypes(a, b) == {a.type, b.type} = {"Decimal", "float"}

\* The USDT balance get_balance may report.
Balances == {0, 10, 1000}

\* position_management.max_position_size_pct, in percent.
MaxPositionSizePcts == {10, 100}

OpenSizes == 1..MaxSize
OpenPrices == (1..MaxPrice) \cup {100}

\* Whether an exception raised inside can_open_position leaves it: the
\* except clause catches every Exception.
EscapesTypeError(error) == error = "TypeError"

Escapes(error) == FALSE

\* can_open_position is called; it awaits exchange.get_balance().
CanOpenPositionCall ==
    /\ kpc = "idle"
    /\ \E symbol \in Symbols, size \in OpenSizes, price \in OpenPrices,
          max_pct \in MaxPositionSizePcts :
         karg' = [symbol |-> symbol, size |-> size, price |-> price, max_pct |-> max_pct]
    /\ kpc' = "balance"
    /\ UNCHANGED <<last_calc, last_open, corrVars, notCK>>

\* The call ends with `error` raised inside it (or none) and `result` what
\* it would return.
CanOpenEnds(usdt, error, result) ==
    /\ kpc' = "idle"
    /\ karg' = NoOpenArgs
    /\ last_open' = [called |-> TRUE, symbol |-> karg.symbol, size |-> karg.size,
                     price |-> karg.price, max_pct |-> karg.max_pct, equity |-> usdt,
                     open |-> DOMAIN positions, error |-> error,
                     result |-> result /\ ~Escapes(error), raised |-> Escapes(error)]

\* get_balance returned.  An equity of zero returns False.  Otherwise the
\* position value, a Decimal, is divided by the equity, a float: TypeError,
\* caught by the except clause, which returns False.  The size test, the
\* correlation check and the margin test that follow the division are
\* reached only if the division succeeds, which no balance brings about.
CanOpenBalanceReturned ==
    /\ kpc = "balance"
    /\ \E usdt \in Balances :
         LET equity == FloatOf(usdt)
             position_value == DecimalOf(karg.size * karg.price)
         IN  IF usdt = 0
             THEN CanOpenEnds(usdt, "none", FALSE)
             ELSE IF MixedTypes(position_value, equity)
             THEN CanOpenEnds(usdt, "TypeError", FALSE)
             ELSE IF position_value.v * 100 > karg.max_pct * usdt
             THEN CanOpenEnds(usdt, "none", FALSE)
             ELSE /\ kpc' = "correlation"
                  /\ UNCHANGED <<karg, last_open>>
    /\ UNCHANGED <<last_calc, corrVars, notCK>>

\* get_balance raised, or the reply has no number for USDT: the except
\* clause returns False.
CanOpenBalanceFailed ==
    /\ kpc = "balance"
    /\ CanOpenEnds(0, "balance", FALSE)
    /\ UNCHANGED <<last_calc, corrVars, notCK>>

NextOpen ==
    \/ CanOpenPositionCall
    \/ CanOpenBalanceReturned
    \/ CanOpenBalanceFailed

SpecOpen == Init /\ [][NextOpen]_vars

(***************************************************************************)
(* PositionManager.check_correlation_risk and the correlation cache        *)
(*                                                                         *)
(* Correlations are in tenths.                                             *)
(***************************************************************************)
CacheDuration == 300              \* self.cache_duration
HighCorrelationThreshold == 7     \* high_correlation_threshold, 0.7

\* position_management.max_correlation_exposure
CorrelationExposures == {1, 2}

\* What np.corrcoef may find between two series of closes.
Correlations == {0 - 9, 0, 9}

\* How many candles a fetch_ohlcv call may return.
CandleCounts == {2, 3}

\* get_correlation: the cached value of the ordered pair, 0.0 without one.
get_correlation(cache, symbol1, symbol2) ==
    IF <<symbol1, symbol2>> \in DOMAIN cache THEN cache[<<symbol1, symbol2>>].value ELSE 0

\* Whether check_correlation_risk counts a position with this correlation.
IsHigh(correlation) == correlation > HighCorrelationThreshold

\* check_correlation_risk from the cache being as `cache` to its return: it
\* counts the open positions other than the candidate whose cached
\* correlation with it is high and answers False when the count reaches the
\* limit.
CorrelationCounted(cache, candidate, exposure) ==
    LET others == (DOMAIN positions) \ {candidate}
        correlated_exposure ==
            Cardinality({s \in others : IsHigh(get_correlation(cache, candidate, s))})
    IN  /\ last_corr' = [called |-> TRUE, candidate |-> candidate,
                         exposure |-> exposure, open |-> DOMAIN positions,
                         read |-> [s \in others |-> get_correlation(cache, candidate, s)],
                         result |-> ~(correlated_exposure >= exposure)]
        /\ rpc' = IdleCheck

\* update_correlation_cache once every symbol's candles are in `lens`: each
\* pair of the symbols listed at its start whose series have the same length
\* is written in both orders into the existing dict, then the timestamp is
\* set.  The model's two symbols make one pair.
CacheRefreshed(symbols, lens, c) ==
    LET listed == {symbols[i] : i \in DOMAIN symbols}
        pairs == {p \in listed \X listed : p[1] # p[2] /\ lens[p[1]] = lens[p[2]]}
    IN  [p \in (DOMAIN correlation_cache) \cup pairs |->
            IF p \in pairs THEN [value |-> c, at |-> now] ELSE correlation_cache[p]]

\* check_correlation_risk is called.  With a cache older than cache_duration
\* it awaits update_correlation_cache, which awaits fetch_ohlcv for the first
\* open position or, with none, sets the timestamp at once.
CheckCorrelationRiskCall ==
    /\ rpc.pc = "idle"
    /\ \E candidate \in Symbols, exposure \in CorrelationExposures :
         LET symbols == KeysInOrder(positions)
             called == [IdleCheck EXCEPT !.candidate = candidate, !.exposure = exposure]
         IN  IF now - cache_timestamp > CacheDuration
             THEN IF symbols = <<>>
                  THEN /\ cache_timestamp' = now
                       /\ UNCHANGED correlation_cache
                       /\ CorrelationCounted(correlation_cache, candidate, exposure)
                  ELSE /\ rpc' = [called EXCEPT !.pc = "ohlcv", !.symbols = symbols,
                                                !.todo = symbols]
                       /\ UNCHANGED <<correlation_cache, cache_timestamp, last_corr>>
             ELSE /\ UNCHANGED <<correlation_cache, cache_timestamp>>
                  /\ CorrelationCounted(correlation_cache, candidate, exposure)
    /\ UNCHANGED <<last_calc, openVars, notCK>>

\* fetch_ohlcv returned the candles of the symbol at hand.  After the last
\* symbol the pairs are computed and written, the timestamp is set and
\* check_correlation_risk counts, all without suspending.
CorrelationOhlcvReturned ==
    /\ rpc.pc = "ohlcv"
    /\ \E n \in CandleCounts, c \in Correlations :
         LET lens == PutPosition(rpc.lens, Head(rpc.todo), n)
             cache == CacheRefreshed(rpc.symbols, lens, c)
         IN  IF Tail(rpc.todo) # <<>>
             THEN /\ rpc' = [rpc EXCEPT !.todo = Tail(rpc.todo), !.lens = lens]
                  /\ UNCHANGED <<correlation_cache, cache_timestamp, last_corr>>
             ELSE /\ correlation_cache' = cache
                  /\ cache_timestamp' = now
                  /\ CorrelationCounted(cache, rpc.candidate, rpc.exposure)
    /\ UNCHANGED <<last_calc, openVars, notCK>>

\* fetch_ohlcv raised: update_correlation_cache logs and returns, the cache
\* and its timestamp as they were, and check_correlation_risk counts.
CorrelationOhlcvFailed ==
    /\ rpc.pc = "ohlcv"
    /\ CorrelationCounted(correlation_cache, rpc.candidate, rpc.exposure)
    /\ UNCHANGED <<correlation_cache, cache_timestamp>>
    /\ UNCHANGED <<last_calc, openVars, notCK>>

\* The clock of this specification: steps that leave the cache just fresh
\* and just stale.
TickCorr ==
    /\ Tick({CacheDuration, CacheDuration + 1})
    /\ UNCHANGED notClock

NextCorr ==
    \/ CheckCorrelationRiskCall
    \/ CorrelationOhlcvReturned
    \/ CorrelationOhlcvFailed
    \/ TickCorr

\* The position maps the checks run on: what a sync_positions leaves for
\* each of the lists fetch_positions may return.
RECURSIVE SyncedMap(_)
SyncedMap(fetched) ==
    IF fetched = <<>> THEN << >>
    ELSE LET rec == fetched[Len(fetched)]
             before == SyncedMap(SubSeq(fetched, 1, Len(fetched) - 1))
         IN  IF Tracked(rec)
             THEN PutPosition(before, rec.symbol, SyncedEntry(rec, MaxPrice))
             ELSE before

InitCorr ==
    /\ InitButPositions(StartTime)
    /\ positions \in {SyncedMap(fetched) : fetched \in FetchResults}

SpecCorr == InitCorr /\ [][NextCorr]_vars

(***************************************************************************)
(* The engine's monitoring loop over positions that update_position wrote  *)
(***************************************************************************)
\* main() and the monitor task, with one caller of update_position whose
\* trade updates are leveraged.  The other three loops take no part: only
\* their cancellation is followed.
NextMonitor ==
    \/ MainBalances
    \/ SyncPositionsFetched
    \/ SyncPositionsFailed
    \/ SyncPositionsPriced
    \/ Interrupt
    \/ \E l \in Loops : TaskCancelled(l)
    \/ MonitorIterate
    \/ UpdatePositionLeveragedCall("u1")
    \/ UpdateStopLossAtrComputed("u1")
    \/ UpdateStopLossAtrFailed("u1")
    \/ UpdateStopLossOrder("u1")

SpecMonitor == Init /\ [][NextMonitor]_vars

(***************************************************************************)
(* Claims: PositionManager and OrderExecutor, second part                  *)
(***************************************************************************)

\* C30: every update_position call that leaves a position of non-zero size
\* has sent the symbol's stop-loss order by the time it releases the lock:
\* the step in which the call ends is the return of create_order.
C30_StopLossRefreshedBeforeRelease ==
    [][\A t \in Updaters :
         (upc[t] # "done" /\ upc'[t] = "done" /\ uupd'[t].size # 0)
           => upc[t] = "stop_order"]_vars

\* update_position and execute_trade called side by side: two tasks of each,
\* no clock (every check_rate_limits call is past the cooldown).
NextTwoLocks ==
    \/ \E t \in SyncUpdaters : UpdatePositionCall(t)
    \/ \E t \in SyncUpdaters : UpdatePositionResume(t)
    \/ \E t \in SyncUpdaters : UpdateStopLossAtrComputed(t)
    \/ \E t \in SyncUpdaters : UpdateStopLossAtrFailed(t)
    \/ \E t \in SyncUpdaters : UpdateStopLossOrder(t)
    \/ \E e \in TradeTasks : ExecuteTradeCall(e)
    \/ \E e \in TradeTasks : ExecuteTradeResume(e)
    \/ \E e \in TradeTasks : TradeLeverageSet(e)
    \/ \E e \in TradeTasks : TradeRefused(e)

SpecTwoLocks == Init /\ [][NextTwoLocks]_vars

\* C29: a call for a symbol waits only for that symbol's own lock.  An
\* update_position or execute_trade call whose own lock is neither held nor
\* waited for enters its critical section in the step of the call, whatever
\* is held for other symbols; and a waiting task is queued on its own
\* symbol's lock alone.
C29_DifferentSymbolsIndependent ==
    /\ [][\A t \in Updaters :
            (upc[t] = "idle" /\ upc'[t] = "waiting")
              => (position_locks[usym'[t]].locked
                    \/ position_locks[usym'[t]].waiters # <<>>)]_vars
    /\ [][\A e \in TradeTasks :
            (tpc[e] = "idle" /\ tpc'[e] = "waiting")
              => (order_locks[tsym'[e]].locked \/ order_locks[tsym'[e]].waiters # <<>>)]_vars
    /\ [](\A t \in Updaters, s \in Symbols :
            (\E i \in DOMAIN position_locks[s].waiters : position_locks[s].waiters[i] = t)
              => (upc[t] = "waiting" /\ usym[t] = s))
    /\ [](\A e \in TradeTasks, s \in Symbols :
            (\E i \in DOMAIN order_locks[s].waiters : order_locks[s].waiters[i] = e)
              => (tpc[e] = "waiting" /\ tsym[e] = s))

\* Two update_position calls are suspended in their critical sections for
\* different symbols, and so are two execute_trade calls.
C29_Witness ==
    /\ \E t1, t2 \in Updaters :
         InCriticalSection(t1) /\ InCriticalSection(t2) /\ usym[t1] # usym[t2]
    /\ \E e1, e2 \in TradeTasks :
         /\ tpc[e1] \in {"set_leverage", "get_balance"}
         /\ tpc[e2] \in {"set_leverage", "get_balance"}
         /\ tsym[e1] # tsym[e2]

\* C28: an execute_order call that passes the cooldown test with an
\* unsupported order type ends with an error in its caller.
C28_UnsupportedTypeSurfaces ==
    (last_call.admitted /\ ~last_call.dispatched) => last_call.surfaced

\* C26: when the last write to the position map is a completed sync_positions,
\* the map holds exactly the symbols of the fetched records of the spot or
\* the futures shape with a quantity other than zero, each entry built from
\* the last such record of its symbol and from nothing else: the size, the
\* entry price (0 for a spot record) and an awaited price.
C26_SyncReplacesMap ==
    last_write.op = "sync_positions" =>
        LET fetched == last_write.fetched
            kept == {i \in DOMAIN fetched :
                        /\ fetched[i].shape \in {"spot", "futures"}
                        /\ fetched[i].qty # 0}
            lastOf(s) == CHOOSE i \in kept :
                            /\ fetched[i].symbol = s
                            /\ \A j \in kept : fetched[j].symbol = s => j <= i
        IN  /\ DOMAIN positions = {fetched[i].symbol : i \in kept}
            /\ \A s \in DOMAIN positions :
                 /\ DOMAIN positions[s] = {"size", "entry_price", "current_price"}
                 /\ positions[s].size = fetched[lastOf(s)].qty
                 /\ positions[s].entry_price =
                      (IF fetched[lastOf(s)].shape = "spot" THEN 0
                       ELSE fetched[lastOf(s)].avg)
                 /\ positions[s].current_price \in PriceReplies

\* A sync that dropped a symbol of the previous map.
C26_Witness ==
    /\ last_write.op = "sync_positions"
    /\ last_write.syms \ DOMAIN positions # {}
    /\ positions # << >>

\* C27: for a leverage above 1 the result r of a call satisfies
\* r * L = entry * (L - 1 + ratio * L) for a long and
\* r * L = entry * (L + 1 - ratio * L) for a short position (the claim's
\* formulas multiplied through by L); for a leverage of at most 1 it is 0
\* for a long and infinite for a short position; entry 100, leverage 10 and
\* ratio 0.005 give 90.5 and 109.5.
C27_LiquidationPrice ==
    last_calc.called =>
        LET e == last_calc.entry_price
            L == last_calc.leverage
            m == last_calc.ratio
            r == last_calc.result
            long == last_calc.direction = "long"
        IN  /\ (L > 10 /\ long) =>
                 (~r.infinite /\ r.value * L = e * (1000 * L - 10000 + m * L))
            /\ (L > 10 /\ ~long) =>
                 (~r.infinite /\ r.value * L = e * (1000 * L + 10000 - m * L))
            /\ (L <= 10 /\ long) => r = [infinite |-> FALSE, value |-> 0]
            /\ (L <= 10 /\ ~long) => r.infinite
            /\ (e = 100 /\ L = 100 /\ m = 5) =>
                 r.value = (IF long THEN 90500 ELSE 109500)

\* The short position of the claim's example.
C27_Witness ==
    /\ last_calc.called
    /\ last_calc.direction = "short"
    /\ last_calc.entry_price = 100 /\ last_calc.leverage = 100 /\ last_calc.ratio = 5
    /\ last_calc.result.value = 109500

C22_OpensWhenChecksPass ==
    (/\ last_open.called
     /\ last_open.equity # 0
     /\ last_open.size * last_open.price * 100 <= last_open.max_pct * last_open.equity
     /\ last_open.open \ {last_open.symbol} = {}
     /\ last_open.size * last_open.price * 11 <= last_open.equity * 10)
        => last_open.result

\* C24: a check_correlation_risk call answers False exactly when the open
\* positions other than the candidate whose correlation with it, as the call
\* read it, exceeds the threshold in absolute value number at least
\* max_correlation_exposure.
C24_CountsAbsoluteCorrelation ==
    last_corr.called =>
        (~last_corr.result <=>
            Cardinality({s \in DOMAIN last_corr.read :
                            \/ last_corr.read[s] > HighCorrelationThreshold
                            \/ 0 - last_corr.read[s] > HighCorrelationThreshold})
              >= last_corr.exposure)

\* C25: every entry of the correlation cache was computed in the refresh
\* that set the cache's timestamp.
C25_CacheOfOneRefresh ==
    \A p \in DOMAIN correlation_cache : correlation_cache[p].at = cache_timestamp

\* C21: when a pass of the engine's monitoring loop ends (sync_positions has
\* returned and the task goes to sleep), no position is left open in the map
\* whose current price is within the 5% buffer of its liquidation price
\* (long: current < liquidation * 1.05; short: current > liquidation * 0.95).
C21_AtRiskPositionsClosed ==
    [][(lpc["monitor"] = "sync" /\ lpc'["monitor"] \in {"sleep", "backoff"})
         => \A s \in DOMAIN positions' :
              ~(/\ "liquidation_price" \in DOMAIN positions'[s]
                /\ positions'[s].size # 0
                /\ ~positions'[s].liquidation_price.infinite
                /\ IF positions'[s].size > 0
                   THEN positions'[s].current_price * 100000
                          < positions'[s].liquidation_price.value * 105
                   ELSE positions'[s].current_price * 100000
                          > positions'[s].liquidation_price.value * 95)]_vars

(***************************************************************************)
(* Claims: third part                                                      *)
(***************************************************************************)
\* C38: the step in which a sync_positions call ends by a failure (in the
\* fetch or in a price lookup) returns to the caller and leaves every entry
\* of the position map as it was; the only change in that step is the
\* caller's: cleanup_positions deletes the entries of size zero.
C38_FailedSyncKeepsMap ==
    [][(sy.pc \in {"fetch", "price"} /\ sy'.ended # "none" /\ sy'.ended # "ok")
         => /\ sy'.ended = "failed"
            /\ DOMAIN positions' \subseteq DOMAIN positions
            /\ \A s \in DOMAIN positions' : positions'[s] = positions[s]
            /\ \A s \in (DOMAIN positions) \ DOMAIN positions' :
                 sy.caller = "cleanup" /\ positions[s].size = 0]_vars

\* A sync that failed and returned, a map with entries being kept.
C38_Witness ==
    /\ sy.ended = "failed"
    /\ positions # << >>

\* C39: the engine reports running only while background loops exist: in
\* every state in which is_running is set, at least one of the four tasks
\* has been created and has not ended.
C39_RunningOnlyWithLoops ==
    is_running => \E l \in Loops : lpc[l] \notin Done

\* C37: an execute_trade call that returns None leaves the engine's rate-limit
\* state as it was before the call: a trade that passed check_rate_limits and
\* is then refused by can_open_position has not consumed one of the symbol's
\* hourly slots (the symbol's counter is what the call found) and has not
\* stamped last_trade_time.  The order lock of the symbol is held from the
\* check to the return, so the last check of the symbol is the call's own.
C37_RefusedTradeLeavesRateLimits ==
    [][\A e \in TradeTasks :
          (tpc[e] = "get_balance" /\ tpc'[e] = "idle" /\ last_check.symbol = tsym[e])
             => /\ rate_limit_counter'[tsym[e]] = last_check.found
                /\ last_trade_time' = last_trade_time]_vars

(***************************************************************************)
(* execute_trade past the position gate.  self.position_manager is the    *)
(* object the constructor was given (trading_engine.py:12); the steps     *)
(* below are the engine's own code for an answer of True.  With the       *)
(* PositionManager of this repository the answer is always False          *)
(* (TradeRefused), so under main() none of them is reached.                *)
(***************************************************************************)
\* The update_position call a trade task makes runs as its own updater.
UpdaterOf(e) == IF e = "e1" THEN "u1" ELSE "u2"

\* What execute_trade was asked to attach to the main order: stop_loss and
\* take_profit (an OCO order), trailing_stop alone, or neither.
TradeAttachments == {"none", "oco", "trailing"}

\* Where a call stands once its main order is in the registry.
RegisteredStages == {"create_oco", "create_trailing", "update_position"}

\* self.active_orders[order['id']] = order with the fresh id of the exchange.
RegisterOrder(registry) == Append(registry, Len(registry) + 1)

\* can_open_position answered True: the main order is sent.
TradeAccepted(e) ==
    /\ tpc[e] = "get_balance"
    /\ Len(active_orders) + 2 <= MaxTradeOrders
    /\ tpc' = [tpc EXCEPT ![e] = "create_order"]
    /\ UNCHANGED <<order_locks, last_trade_time, rate_limit_counter, rate_limit_last_reset,
                   tsym, last_check, notRL>>

\* What update_position reads from the order dictionary the exchange
\* returned: zeros when it has no size, entry_price and current_price keys.
OrderUpdates == {u \in TradeUpdates : u.size >= 0}

\* `await self.position_manager.update_position(symbol, main_order)`.
TradeCallsUpdate(e) ==
    /\ \E u \in OrderUpdates : UpdatePositionEnter(UpdaterOf(e), tsym[e], u)
    /\ tpc' = [tpc EXCEPT ![e] = "update_position"]

\* create_order returned: the main order is registered, and the attached
\* order is sent or, without one, update_position is called.
TradeOrderCreated(e) ==
    /\ tpc[e] = "create_order"
    /\ active_orders' = RegisterOrder(active_orders)
    /\ \E a \in TradeAttachments :
         IF a = "none"
         THEN TradeCallsUpdate(e)
         ELSE /\ tpc' = [tpc EXCEPT ![e] = IF a = "oco" THEN "create_oco"
                                                        ELSE "create_trailing"]
              /\ UNCHANGED pmVars
    /\ UNCHANGED <<order_locks, last_trade_time, rate_limit_counter, rate_limit_last_reset,
                   tsym, last_check>>
    /\ UNCHANGED <<is_running, mpc, lpc, cancel_req, order_status, cpass, signals_made,
                   last_signal, last_loop>>
    /\ UNCHANGED <<oeVars, rmVars, clockVars, ckVars>>

\* create_oco_order or create_trailing_stop_order returned: the attached
\* order is registered and update_position is called.
TradeAttached(e) ==
    /\ tpc[e] \in {"create_oco", "create_trailing"}
    /\ active_orders' = RegisterOrder(active_orders)
    /\ TradeCallsUpdate(e)
    /\ UNCHANGED <<order_locks, last_trade_time, rate_limit_counter, rate_limit_last_reset,
                   tsym, last_check>>
    /\ UNCHANGED <<is_running, mpc, lpc, cancel_req, order_status, cpass, signals_made,
                   last_signal, last_loop>>
    /\ UNCHANGED <<oeVars, rmVars, clockVars, ckVars>>

\* create_order, create_oco_order or create_trailing_stop_order raised: the
\* except clause of execute_trade notifies and returns None, and the order
\* lock is released.  Nothing else is done: what was registered stays
\* registered, update_position is not called, last_trade_time is not stamped.
TradeOrderFailed(e) ==
    /\ tpc[e] \in {"create_order", "create_oco", "create_trailing"}
    /\ tpc' = [tpc EXCEPT ![e] = "idle"]
    /\ tsym' = [tsym EXCEPT ![e] = SymbolOrder[1]]
    /\ order_locks' = [order_locks EXCEPT ![tsym[e]].locked = FALSE]
    /\ UNCHANGED <<last_trade_time, rate_limit_counter, rate_limit_last_reset,
                   last_check, notRL>>

\* update_position returned (it catches what it raises): record_trade, the
\* stamp of last_trade_time, and execute_trade returns the main order.
TradeCompleted(e) ==
    /\ tpc[e] = "update_position"
    /\ upc[UpdaterOf(e)] = "done"
    /\ last_trade_time' = [last_trade_time EXCEPT ![tsym[e]] = now]
    /\ tpc' = [tpc EXCEPT ![e] = "idle"]
    /\ tsym' = [tsym EXCEPT ![e] = SymbolOrder[1]]
    /\ order_locks' = [order_locks EXCEPT ![tsym[e]].locked = FALSE]
    /\ upc' = [upc EXCEPT ![UpdaterOf(e)] = "idle"]
    /\ UNCHANGED <<positions, position_locks, usym, uupd, submitted, last_write, sy>>
    /\ UNCHANGED <<rate_limit_counter, rate_limit_last_reset, last_check>>
    /\ UNCHANGED <<oeVars, rmVars, enVars, clockVars, ckVars>>

TradeUpdaters == {UpdaterOf(e) : e \in TradeTasks}

\* The clock of this specification: a step that ends the cooldown.
TickTrade ==
    /\ ticks < MaxTradeTicks
    /\ Tick({OrderCooldown})
    /\ UNCHANGED notClock

NextTrade ==
    \/ \E e \in TradeTasks : ExecuteTradeCall(e)
    \/ \E e \in TradeTasks : ExecuteTradeResume(e)
    \/ \E e \in TradeTasks : TradeLeverageSet(e)
    \/ \E e \in TradeTasks : TradeRefused(e)
    \/ \E e \in TradeTasks : TradeAccepted(e)
    \/ \E e \in TradeTasks : TradeOrderCreated(e)
    \/ \E e \in TradeTasks : TradeAttached(e)
    \/ \E e \in TradeTasks : TradeOrderFailed(e)
    \/ \E e \in TradeTasks : TradeCompleted(e)
    \/ \E t \in TradeUpdaters : UpdateStopLossAtrComputed(t)
    \/ \E t \in TradeUpdaters : UpdateStopLossAtrFailed(t)
    \/ \E t \in TradeUpdaters : UpdateStopLossOrder(t)
    \/ TickTrade

\* The engine is constructed with the clock at the end of the cooldown of
\* the never-stamped symbols.
SpecTrade == InitAt(OrderCooldown) /\ [][NextTrade]_vars

C34_AdmittedOrderWasCounted ==
    [][(last_call' # last_call /\ last_call'.admitted)
          => rate_limit_counter'[last_call'.symbol] >= 1]_vars

SecondSignalEvaluated ==
    /\ last_call' # last_call
    /\ ClaimedPriority(last_call'.symbol, last_call'.strategy_name) > 2
    /\ \E o \in OrderTasks : opc[o] # "idle" /\ osym[o] = last_call'.symbol

\* C33 as stated: a cooldown-subject signal evaluated before the dispatch of
\* an earlier order for the same symbol completes, within the cooldown window
\* of that order, passes the cooldown check as well.
C33_BothPassWithinWindow ==
    [][(/\ SecondSignalEvaluated
        /\ last_call'.symbol \in DOMAIN last_orders
        /\ now - last_orders[last_call'.symbol] < OrderCooldownDefault)
          => last_call'.admitted]_vars

\* C33, amended: a cooldown-subject signal evaluated before the dispatch of an
\* earlier order for the same symbol completes is admitted only when the
\* cooldown since that order's stamp has passed; within the window it is
\* rejected, so two such signals never both reach dispatch within one window.
C33_SecondRejectedWithinWindow ==
    [][(SecondSignalEvaluated /\ last_call'.admitted)
          => /\ last_call'.symbol \in DOMAIN last_orders
             /\ now - last_orders[last_call'.symbol] >= OrderCooldownDefault]_vars

\* A cooldown-subject call was rejected while the handler of an earlier
\* order for its symbol was pending.
C33_Witness ==
    /\ ~last_call.admitted
    /\ ClaimedPriority(last_call.symbol, last_call.strategy_name) > 2
    /\ \E o \in OrderTasks : opc[o] # "idle" /\ osym[o] = last_call.symbol
    /\ last_call.symbol \in DOMAIN last_orders
    /\ now - last_orders[last_call.symbol] < OrderCooldownDefault

(***************************************************************************)
(* The engine's monitor with trailing-stop orders in the registry.  Under *)
(* main() nothing registers an order (execute_trade never gets past       *)
(* can_open_position), so the registry is an input here.                   *)
(***************************************************************************)
\* exchange.edit_order returned: the order has the new stop on the exchange
\* (the order dictionary in self.active_orders keeps its stop_price), and
\* update_trailing_stops goes on with the next order of the entry.
MonitorEditReturned ==
    /\ Runs("monitor", {"edit_order"})
    /\ sy.pc = "edit_order"
    /\ stop_prices' = [stop_prices EXCEPT ![Head(sy.todo)] =
                          sy.edits[Len(sy.edits)].new_stop]
    /\ LET result == PassInner(positions, sy.keys, sy.used, Tail(sy.todo), sy.edits) IN
         /\ MonitorPassGoes(result)
         /\ sy' = PassTask(result, sy.ended)
    /\ UNCHANGED <<positions, position_locks, upc, usym, uupd, submitted, last_write>>
    /\ UNCHANGED <<oeVars, rlVars, rmVars, clockVars, last_calc, openVars, corrVars>>

\* exchange.edit_order raised: update_trailing_stops logs it and returns, and
\* the for loop of the monitor asks for its next entry.
MonitorEditFailed ==
    /\ Runs("monitor", {"edit_order"})
    /\ sy.pc = "edit_order"
    /\ LET result == PassFrom(positions, Tail(sy.keys), sy.used, sy.edits) IN
         /\ MonitorPassGoes(result)
         /\ sy' = PassTask(result, sy.ended)
    /\ UNCHANGED <<positions, position_locks, upc, usym, uupd, submitted, last_write, notEN>>

\* The registries of up to MaxTrailing trailing-stop orders.
TrailRegistries ==
    { r \in UNION { [1..n -> TrailIds] : n \in 0..MaxTrailing } :
        \A i, j \in DOMAIN r : i # j => r[i] # r[j] }

InitTrail == InitButRegistry(StartTime) /\ active_orders \in TrailRegistries

NextTrail ==
    \/ MainBalances
    \/ SyncPositionsFetched
    \/ SyncPositionsFailed
    \/ SyncPositionsPriced
    \/ MonitorIterate
    \/ MonitorEditReturned
    \/ MonitorEditFailed
    \/ UpdatePositionCall("u1")
    \/ UpdateStopLossAtrComputed("u1")
    \/ UpdateStopLossAtrFailed("u1")
    \/ UpdateStopLossOrder("u1")

SpecTrail == InitTrail /\ [][NextTrail]_vars

WatchUpdates ==
    { [size |-> 1, entry_price |-> 25, current_price |-> 25],
      [size |-> 1, entry_price |-> 25, current_price |-> 25, leverage |-> 100] }

\* What get_current_price answers: no price, a price 8% under the entry price
\* and 1.7% over the liquidation price, and a price 4% over the entry price.
WatchPrices == {0, 23, 26}

UpdatePositionWatchCall(t) ==
    /\ upc[t] = "idle"
    /\ \E symbol \in Symbols, u \in WatchUpdates : UpdatePositionEnter(t, symbol, u)
    /\ UNCHANGED notPM

MonitorWatchPriced == MonitorPriced(WatchPrices)

NextWatch ==
    \/ SyncPositionsCall
    \/ SyncPositionsFetched
    \/ SyncPositionsFailed
    \/ SyncPositionsPriced
    \/ MonitorWatchPriced
    \/ MonitorStopLossAtrComputed
    \/ MonitorStopLossAtrFailed
    \/ MonitorStopLossOrder
    \/ UpdatePositionWatchCall("u1")
    \/ UpdateStopLossAtrComputed("u1")
    \/ UpdateStopLossAtrFailed("u1")
    \/ UpdateStopLossOrder("u1")

SpecWatch == Init /\ [][NextWatch]_vars

\* The price of the entry is within 5% of its stored liquidation price (in
\* thousandths): abs(liq - current) / current < 0.05.
NearLiquidation(position) ==
    /\ "liquidation_price" \in DOMAIN position
    /\ ~position.liquidation_price.infinite
    /\ position.current_price > 0
    /\ Abs(position.liquidation_price.value - position.current_price * 1000) * 100
         < 5 * position.current_price * 1000

\* C31: monitor_positions triggers a stop-loss refresh for every position
\* whose unrealized PnL percentage exceeds 3% in absolute value, and sends a
\* warning notification for every position whose price is within 5% of its
\* stored liquidation price: the step that writes an entry's price and PnL
\* goes on to update_stop_loss when the PnL is beyond 3%, and the step that
\* ends the handling of an entry near liquidation goes on to the warning.
C31_RefreshBeyond3AndWarnNear5 ==
    [][sy.pc \in {"mon_price", "mon_stop_atr", "mon_stop_order"} =>
         LET symbol == Head(sy.keys)
             priced == /\ sy.pc = "mon_price"
                       /\ last_write'.op = "monitor_positions"
                       /\ symbol \in DOMAIN positions /\ symbol \in DOMAIN positions'
                       /\ positions'[symbol] # positions[symbol]
             handled == /\ sy.pc = "mon_price" => priced
                        /\ sy' # sy
                        /\ sy'.pc \notin {"mon_stop_atr", "mon_stop_order"}
         IN  /\ (/\ priced
                 /\ positions'[symbol].entry_price > 0
                 /\ positions'[symbol].size # 0
                 /\ Abs(positions'[symbol].unrealized_pnl_pct) > 3)
                   => sy'.pc = "mon_stop_atr"
             /\ (/\ handled
                 /\ last_write'.op = "monitor_positions"
                 /\ symbol \in DOMAIN positions'
                 /\ NearLiquidation(positions'[symbol]))
                   => sy'.pc = "mon_warning"]_vars
====
